---------------------------- MODULE Spec2Model ----------------------------
(***************************************************************************)
(* Model of the Polymarket 15-minute trading bot: the risk manager          *)
(* (src/09_risk_manager.py), the orchestrator (src/11_main.py), the exit    *)
(* manager (src/Polymarket/10_exit_manager.py), the position sizer          *)
(* (src/Polymarket/08_position_sizer.py) and the two overreaction           *)
(* detectors (src/Polymarket/07_overreaction_detector.py, time-windowed,    *)
(* and src/07_overreaction_detector.py, count-windowed).                    *)
(*                                                                          *)
(* Units.  Money is an integer number of cents; a price is an integer       *)
(* number of cents of a dollar (0.50 is 50); a fraction such as 0.05 is     *)
(* kept as a percentage (5) and every comparison of the source is           *)
(* cross-multiplied so that no division is needed to decide it.  Python     *)
(* floats are modelled by these exact values.  Time is in seconds.          *)
(***************************************************************************)
EXTENDS Integers, Sequences, FiniteSets, TLC

VARIABLES
    risk_mgr,               \* the RiskManager object (a record of its fields)
    open_positions,         \* PolymarketTradingBot.open_positions
    sizer_bankroll,         \* PositionSizer.bankroll
    detector,               \* PolymarketTradingBot.detector: which detector module is loaded
    last_scan_time,         \* PolymarketTradingBot.last_scan_time (NoneNum or seconds)
    last_exit_check_time,   \* PolymarketTradingBot.last_exit_check_time
    pc,                     \* position of the main loop / of the caller
    now,                    \* wall clock, seconds
    arg,                    \* arguments of the call in progress (pure-function specs)
    ret                     \* the last call made and what it returned

vars == << risk_mgr, open_positions, sizer_bankroll, detector, last_scan_time,
           last_exit_check_time, pc, now, arg, ret >>

None == "None"      \* Python None in a string-valued field
NoneNum == -1       \* Python None in a numeric field (times, prices, ATR are >= 0)

(***************************************************************************)
(* Bounds of the model (not program constants).                             *)
(***************************************************************************)
MaxTrades == 5          \* close_position calls explored per run
MaxOpen == 3            \* length of RiskManager.open_positions explored

(***************************************************************************)
(* src/09_risk_manager.py : constants                                       *)
(***************************************************************************)
DAILY_LOSS_LIMIT_PCT == 5
MAX_CONCURRENT_POSITIONS == 3
MAX_CONSECUTIVE_LOSSES == 5
MIN_WIN_RATE_THRESHOLD == 40
MIN_TRADES_FOR_WIN_RATE == 20

Tokens == {"tokA", "tokB"}

(***************************************************************************)
(* RiskManager.__init__                                                     *)
(***************************************************************************)
RiskManager(starting_bankroll, max_consecutive_losses, min_trades_for_wr) ==
    [ starting_bankroll      |-> starting_bankroll,
      current_bankroll       |-> starting_bankroll,
      daily_loss_limit_pct   |-> DAILY_LOSS_LIMIT_PCT,
      max_concurrent         |-> MAX_CONCURRENT_POSITIONS,
      max_consecutive_losses |-> max_consecutive_losses,
      min_win_rate           |-> MIN_WIN_RATE_THRESHOLD,
      min_trades_for_wr      |-> min_trades_for_wr,
      open_positions         |-> << >>,
      today_start_bankroll   |-> starting_bankroll,
      today_pnl              |-> 0,
      consecutive_losses     |-> 0,
      trade_history          |-> << >>,
      trading_paused         |-> FALSE,
      pause_reason           |-> None ]

\* sum(self.trade_history): the number of True entries
RECURSIVE wins(_)
wins(h) == IF h = << >> THEN 0
           ELSE (IF h[1] THEN 1 ELSE 0) + wins(Tail(h))

\* today_pnl <= -(today_start_bankroll * daily_loss_limit_pct)
daily_loss_hit(rm) ==
    rm.today_pnl * 100 <= -(rm.today_start_bankroll * rm.daily_loss_limit_pct)

\* len(trade_history) >= min_trades_for_wr and wins / len < min_win_rate
win_rate_low(rm) ==
    /\ Len(rm.trade_history) >= rm.min_trades_for_wr
    /\ wins(rm.trade_history) * 100 < rm.min_win_rate * Len(rm.trade_history)


(***************************************************************************)
(* RiskManager.can_open_position: the six checks.  Each *_pass operator is  *)
(* the 'pass' entry the code stores in checks[...] for that check.          *)
(***************************************************************************)
daily_loss_pass(rm) == ~daily_loss_hit(rm)

\* mutant: '>' written for '>='
concurrent_positions_pass_gt(rm) ==
    ~(Len(rm.open_positions) > rm.max_concurrent)

concurrent_positions_pass(rm) ==
    ~(Len(rm.open_positions) >= rm.max_concurrent)

\* mutant: '>' written for '>='
consecutive_losses_pass_gt(rm) ==
    ~(rm.consecutive_losses > rm.max_consecutive_losses)

consecutive_losses_pass(rm) ==
    ~(rm.consecutive_losses >= rm.max_consecutive_losses)

win_rate_pass(rm) == ~win_rate_low(rm)

\* position_size > self.current_bankroll * 0.5 fails the check
position_size_pass(rm, position_size) ==
    ~(2 * position_size > rm.current_bankroll)

CheckNames == << "daily_loss", "concurrent_positions", "consecutive_losses",
                 "win_rate", "position_size" >>

\* mutant: the reason names only the first failing check
can_open_position_first_reason(rm, position_size) ==
    IF rm.trading_paused
    THEN [ allowed |-> FALSE,
           reason  |-> << "Trading paused" >>,
           checks  |-> [c \in {} |-> FALSE] ]
    ELSE LET checks == [ daily_loss           |-> daily_loss_pass(rm),
                         concurrent_positions |-> concurrent_positions_pass(rm),
                         consecutive_losses   |-> consecutive_losses_pass(rm),
                         win_rate             |-> win_rate_pass(rm),
                         position_size        |-> position_size_pass(rm, position_size) ]
             reasons  == SelectSeq(CheckNames, LAMBDA c : ~checks[c])
             all_pass == \A c \in DOMAIN checks : checks[c]
         IN  [ allowed |-> all_pass,
               reason  |-> IF all_pass THEN << "All risk checks passed" >>
                           ELSE << Head(reasons) >>,
               checks  |-> checks ]

can_open_position(rm, position_size) ==
    IF rm.trading_paused
    THEN [ allowed |-> FALSE,
           reason  |-> << "Trading paused" >>,
           checks  |-> [c \in {} |-> FALSE] ]
    ELSE LET checks == [ daily_loss           |-> daily_loss_pass(rm),
                         concurrent_positions |-> concurrent_positions_pass(rm),
                         consecutive_losses   |-> consecutive_losses_pass(rm),
                         win_rate             |-> win_rate_pass(rm),
                         position_size        |-> position_size_pass(rm, position_size) ]
             reasons  == SelectSeq(CheckNames, LAMBDA c : ~checks[c])
             all_pass == \A c \in DOMAIN checks : checks[c]
         IN  [ allowed |-> all_pass,
               reason  |-> IF all_pass THEN << "All risk checks passed" >>
                           ELSE reasons,
               checks  |-> checks ]

(***************************************************************************)
(* RiskManager.open_position, close_position, _check_circuit_breakers,      *)
(* reset_daily: each maps the object before the call to the object after.   *)
(***************************************************************************)
open_position(rm, position_data) ==
    [rm EXCEPT !.open_positions = Append(@, position_data)]

\* mutant: the pause is recomputed on every close, so a later winning
\* trade that leaves no breaker tripped clears it
_check_circuit_breakers_recompute(rm) ==
    IF daily_loss_hit(rm)
    THEN [rm EXCEPT !.trading_paused = TRUE,
                    !.pause_reason = "Daily loss limit hit"]
    ELSE IF rm.consecutive_losses >= rm.max_consecutive_losses
    THEN [rm EXCEPT !.trading_paused = TRUE,
                    !.pause_reason = "consecutive losses"]
    ELSE IF win_rate_low(rm)
    THEN [rm EXCEPT !.trading_paused = TRUE,
                    !.pause_reason = "Win rate too low"]
    ELSE [rm EXCEPT !.trading_paused = FALSE, !.pause_reason = None]

_check_circuit_breakers(rm) ==
    IF daily_loss_hit(rm)
    THEN [rm EXCEPT !.trading_paused = TRUE,
                    !.pause_reason = "Daily loss limit hit"]
    ELSE IF rm.consecutive_losses >= rm.max_consecutive_losses
    THEN [rm EXCEPT !.trading_paused = TRUE,
                    !.pause_reason = "consecutive losses"]
    ELSE IF win_rate_low(rm)
    THEN [rm EXCEPT !.trading_paused = TRUE,
                    !.pause_reason = "Win rate too low"]
    ELSE rm

\* mutant: a trade that breaks even counts as a win
close_position_zero_wins(rm, token_id, pnl) ==
    LET is_win == pnl >= 0
    IN  _check_circuit_breakers(
            [rm EXCEPT
                !.open_positions = SelectSeq(@, LAMBDA p : p.token_id # token_id),
                !.today_pnl = @ + pnl,
                !.current_bankroll = @ + pnl,
                !.trade_history = Append(@, is_win),
                !.consecutive_losses = IF is_win THEN 0 ELSE @ + 1])

\* mutant: a close for a token that has no open position is not booked
close_position_open_only(rm, token_id, pnl) ==
    LET is_win == pnl > 0
    IN  IF \A i \in 1..Len(rm.open_positions) : rm.open_positions[i].token_id # token_id
        THEN rm
        ELSE _check_circuit_breakers(
                [rm EXCEPT
                    !.open_positions = SelectSeq(@, LAMBDA p : p.token_id # token_id),
                    !.today_pnl = @ + pnl,
                    !.current_bankroll = @ + pnl,
                    !.trade_history = Append(@, is_win),
                    !.consecutive_losses = IF is_win THEN 0 ELSE @ + 1])

close_position(rm, token_id, pnl) ==
    LET is_win == pnl > 0
    IN  _check_circuit_breakers(
            [rm EXCEPT
                !.open_positions = SelectSeq(@, LAMBDA p : p.token_id # token_id),
                !.today_pnl = @ + pnl,
                !.current_bankroll = @ + pnl,
                !.trade_history = Append(@, is_win),
                !.consecutive_losses = IF is_win THEN 0 ELSE @ + 1])

\* mutant: the reset also clears the losing streak
reset_daily_clears_streak(rm) ==
    [rm EXCEPT !.today_start_bankroll = rm.current_bankroll,
               !.today_pnl = 0,
               !.trading_paused = FALSE,
               !.pause_reason = None,
               !.consecutive_losses = 0]

\* mutant: the reset keeps the day's starting bankroll
reset_daily_keeps_start(rm) ==
    [rm EXCEPT !.today_pnl = 0,
               !.trading_paused = FALSE,
               !.pause_reason = None]

reset_daily(rm) ==
    [rm EXCEPT !.today_start_bankroll = rm.current_bankroll,
               !.today_pnl = 0,
               !.trading_paused = FALSE,
               !.pause_reason = None]

(***************************************************************************)
(* SpecRisk: a RiskManager driven through its public methods by a caller,   *)
(* as the file's own test runner does (src/09_risk_manager.py:346-427).     *)
(***************************************************************************)
RiskBankrolls == {100000}                  \* $1000, the test runner's bankroll
RiskSizes     == {2000, 50000}             \* $20 (test runner) and $500 (50% of $1000)
RiskPnLs      == {-6000, -300, 0, 400, 500}  \* -$60 trips the 5% daily limit
\* constructor arguments explored: the defaults and a small configuration
RiskConfigs   == { << MAX_CONSECUTIVE_LOSSES, MIN_TRADES_FOR_WIN_RATE >>, << 2, 3 >> }

TestPosition(token_id) ==
    [ token_id |-> token_id, side |-> "BUY", size |-> 2000,
      entry_price |-> 50, entry_time |-> 0 ]

BotIdle ==
    /\ open_positions = << >>
    /\ sizer_bankroll = 0
    /\ detector = None
    /\ last_scan_time = NoneNum
    /\ last_exit_check_time = NoneNum
    /\ now = 0

\* The close_position calls made on the risk manager so far: their number
\* and the sum of their pnl arguments.
NoCalls == [ close_calls |-> 0, pnl_total |-> 0 ]

InitRisk ==
    /\ \E b \in RiskBankrolls, cfg \in RiskConfigs :
          risk_mgr = RiskManager(b, cfg[1], cfg[2])
    /\ pc = "api"
    /\ ret = [op |-> "__init__"]
    /\ BotIdle
    /\ arg = NoCalls

UnchangedBot ==
    UNCHANGED << open_positions, sizer_bankroll, detector, last_scan_time,
                 last_exit_check_time, pc, now >>

Call_can_open_position ==
    /\ \E position_size \in RiskSizes :
          LET r == can_open_position(risk_mgr, position_size)
          IN  ret' = [ op |-> "can_open_position", position_size |-> position_size,
                       allowed |-> r.allowed, reason |-> r.reason ]
    /\ UNCHANGED << risk_mgr, arg >>
    /\ UnchangedBot

Call_open_position ==
    /\ Len(risk_mgr.open_positions) < MaxOpen
    /\ \E t \in Tokens : risk_mgr' = open_position(risk_mgr, TestPosition(t))
    /\ ret' = [op |-> "open_position"]
    /\ UNCHANGED arg
    /\ UnchangedBot

Call_close_position ==
    /\ Len(risk_mgr.trade_history) < MaxTrades
    /\ \E t \in Tokens, pnl \in RiskPnLs :
          /\ risk_mgr' = close_position(risk_mgr, t, pnl)
          /\ ret' = [op |-> "close_position", token_id |-> t, pnl |-> pnl]
          /\ arg' = [ close_calls |-> arg.close_calls + 1,
                      pnl_total |-> arg.pnl_total + pnl ]
    /\ UnchangedBot

Call_reset_daily ==
    /\ risk_mgr' = reset_daily(risk_mgr)
    /\ ret' = [op |-> "reset_daily"]
    /\ UNCHANGED arg
    /\ UnchangedBot

NextRisk ==
    \/ Call_can_open_position
    \/ Call_open_position
    \/ Call_close_position
    \/ Call_reset_daily

SpecRisk == InitRisk /\ [][NextRisk]_vars

(***************************************************************************)
(* Claims about the RiskManager, checked under SpecRisk.                    *)
(***************************************************************************)

\* C1: once close_position has paused trading, every later step other than
\* reset_daily leaves trading_paused true, and a can_open_position call made
\* in such a step returns allowed = false whatever the proposed size, also
\* when the step closes a position with pnl > 0.
C1_PauseSticksUntilReset ==
    [][ (risk_mgr.trading_paused /\ ret'.op # "reset_daily")
            => /\ risk_mgr'.trading_paused
               /\ (ret'.op = "can_open_position" => ~ret'.allowed) ]_vars

\* C1 witness: trading is paused although no breaker condition holds any
\* more (the last close was a win), and can_open_position was just refused.
C1_Witness ==
    /\ risk_mgr.trading_paused
    /\ ~daily_loss_hit(risk_mgr)
    /\ risk_mgr.consecutive_losses = 0
    /\ ~win_rate_low(risk_mgr)
    /\ ret.op = "can_open_position"
    /\ ~ret.allowed

\* a proposal that respects the size, concurrency and daily-loss limits
CompliantProposal(rm, position_size) ==
    /\ 2 * position_size <= rm.current_bankroll
    /\ Len(rm.open_positions) < rm.max_concurrent
    /\ rm.today_pnl * 100 > -(rm.today_start_bankroll * rm.daily_loss_limit_pct)

\* C2 (as claimed): when reset_daily has just been called on a manager whose
\* consecutive_losses had been pushed to max_consecutive_losses, the next
\* can_open_position for a compliant proposal returns allowed = true.
C2_AllowedAfterReset ==
    [][ ( /\ ret.op = "reset_daily"
          /\ risk_mgr.consecutive_losses >= risk_mgr.max_consecutive_losses
          /\ ret'.op = "can_open_position"
          /\ CompliantProposal(risk_mgr', ret'.position_size) )
            => ret'.allowed ]_vars

\* C5: can_open_position(size) returns allowed = true exactly when trading is
\* not paused, the daily loss is within the limit, fewer than max_concurrent
\* positions are open, consecutive_losses is below its maximum, the win rate
\* is not yet evaluated or at least min_win_rate, and size is at most half
\* of the current bankroll.
C5_AllowedIffAllChecksPass ==
    ret.op = "can_open_position" =>
        ( ret.allowed <=>
            /\ ~risk_mgr.trading_paused
            /\ risk_mgr.today_pnl * 100
                   > -(risk_mgr.today_start_bankroll * risk_mgr.daily_loss_limit_pct)
            /\ Len(risk_mgr.open_positions) < risk_mgr.max_concurrent
            /\ risk_mgr.consecutive_losses < risk_mgr.max_consecutive_losses
            /\ \/ Len(risk_mgr.trade_history) < risk_mgr.min_trades_for_wr
               \/ wins(risk_mgr.trade_history) * 100
                      >= risk_mgr.min_win_rate * Len(risk_mgr.trade_history)
            /\ 2 * ret.position_size <= risk_mgr.current_bankroll )

\* C5 witness: a proposal is allowed while two positions are open, a loss
\* has been booked and the win rate is being evaluated.
C5_Witness ==
    /\ ret.op = "can_open_position"
    /\ ret.allowed
    /\ Len(risk_mgr.open_positions) = 2
    /\ risk_mgr.today_pnl < 0
    /\ Len(risk_mgr.trade_history) >= risk_mgr.min_trades_for_wr

(***************************************************************************)
(* src/Polymarket/10_exit_manager.py                                        *)
(* Thresholds are percentages (pnl), cents (price distance), seconds and    *)
(* thousandths (ATR).                                                       *)
(***************************************************************************)
STOP_LOSS_PCT == 6
TAKE_PROFIT_PCT == 4
MEAN_REVERSION_THRESHOLD == 4
MAX_HOLD_TIME_SECONDS == 480
REGIME_BREAK_ATR == 35

Abs(x) == IF x < 0 THEN -x ELSE x

\* a * b / c rounded toward zero (c > 0): the value the float expression has,
\* to the model's resolution
MulDiv(a, b, c) ==
    IF a * b >= 0 THEN (a * b) \div c ELSE -((-(a * b)) \div c)

\* numerator of pnl_pct: pnl_pct = pnl_num(...) / entry_price, 0 if entry_price <= 0
pnl_num(position, current_price) ==
    IF position.entry_price > 0
    THEN IF position.side = "BUY"
         THEN current_price - position.entry_price
         ELSE position.entry_price - current_price
    ELSE 0

\* the denominator that goes with pnl_num (1 when pnl_pct is the constant 0)
pnl_den(position) ==
    IF position.entry_price > 0 THEN position.entry_price ELSE 1

\* mutant: the entry time is never read as a datetime
hold_time_seconds_unstamped(position, current_time) ==
    0

hold_time_seconds(position, current_time) ==
    IF position.entry_time # NoneNum THEN current_time - position.entry_time ELSE 0

ExitDecision(reason, priority, pnl) ==
    [ should_exit |-> TRUE, reason |-> reason, priority |-> priority, pnl |-> pnl ]

\* mutant: the max-hold rule is tested before stop-loss and take-profit
check_exit_hold_first(position, current_price, current_time, btc_atr) ==
    LET num  == pnl_num(position, current_price)
        den  == pnl_den(position)
        pnl  == MulDiv(num, position.size, den)
        hold == hold_time_seconds(position, current_time)
        time_remaining == MAX_HOLD_TIME_SECONDS - hold
    IN  IF hold >= MAX_HOLD_TIME_SECONDS
        THEN ExitDecision("MAX_TIME", 1, pnl)
        ELSE IF num * 100 <= -(STOP_LOSS_PCT * den)
        THEN ExitDecision("STOP_LOSS", 1, pnl)
        ELSE IF num * 100 >= TAKE_PROFIT_PCT * den
        THEN ExitDecision("TAKE_PROFIT", 1, pnl)
        ELSE IF Abs(current_price - 50) <= MEAN_REVERSION_THRESHOLD /\ num > 0
        THEN ExitDecision("MEAN_REVERSION", 2, pnl)
        ELSE IF btc_atr # NoneNum /\ btc_atr > REGIME_BREAK_ATR
        THEN ExitDecision("REGIME_BREAK", 2, pnl)
        ELSE IF time_remaining < 120 /\ num * 100 > den
        THEN ExitDecision("TIME_PRESSURE", 3, pnl)
        ELSE [ should_exit |-> FALSE, reason |-> None, priority |-> NoneNum,
               pnl |-> pnl ]

\* mutant: the mean-reversion rule also fires at break-even
check_exit_reverts_at_breakeven(position, current_price, current_time, btc_atr) ==
    LET num  == pnl_num(position, current_price)
        den  == pnl_den(position)
        pnl  == MulDiv(num, position.size, den)
        hold == hold_time_seconds(position, current_time)
        time_remaining == MAX_HOLD_TIME_SECONDS - hold
    IN  IF num * 100 <= -(STOP_LOSS_PCT * den)
        THEN ExitDecision("STOP_LOSS", 1, pnl)
        ELSE IF num * 100 >= TAKE_PROFIT_PCT * den
        THEN ExitDecision("TAKE_PROFIT", 1, pnl)
        ELSE IF hold >= MAX_HOLD_TIME_SECONDS
        THEN ExitDecision("MAX_TIME", 1, pnl)
        ELSE IF Abs(current_price - 50) <= MEAN_REVERSION_THRESHOLD /\ num >= 0
        THEN ExitDecision("MEAN_REVERSION", 2, pnl)
        ELSE IF btc_atr # NoneNum /\ btc_atr > REGIME_BREAK_ATR
        THEN ExitDecision("REGIME_BREAK", 2, pnl)
        ELSE IF time_remaining < 120 /\ num * 100 > den
        THEN ExitDecision("TIME_PRESSURE", 3, pnl)
        ELSE [ should_exit |-> FALSE, reason |-> None, priority |-> NoneNum,
               pnl |-> pnl ]

\* ExitManager.check_exit
check_exit(position, current_price, current_time, btc_atr) ==
    LET num  == pnl_num(position, current_price)
        den  == pnl_den(position)
        pnl  == MulDiv(num, position.size, den)
        hold == hold_time_seconds(position, current_time)
        time_remaining == MAX_HOLD_TIME_SECONDS - hold
    IN  IF num * 100 <= -(STOP_LOSS_PCT * den)
        THEN ExitDecision("STOP_LOSS", 1, pnl)
        ELSE IF num * 100 >= TAKE_PROFIT_PCT * den
        THEN ExitDecision("TAKE_PROFIT", 1, pnl)
        ELSE IF hold >= MAX_HOLD_TIME_SECONDS
        THEN ExitDecision("MAX_TIME", 1, pnl)
        ELSE IF Abs(current_price - 50) <= MEAN_REVERSION_THRESHOLD /\ num > 0
        THEN ExitDecision("MEAN_REVERSION", 2, pnl)
        ELSE IF btc_atr # NoneNum /\ btc_atr > REGIME_BREAK_ATR
        THEN ExitDecision("REGIME_BREAK", 2, pnl)
        ELSE IF time_remaining < 120 /\ num * 100 > den
        THEN ExitDecision("TIME_PRESSURE", 3, pnl)
        ELSE [ should_exit |-> FALSE, reason |-> None, priority |-> NoneNum,
               pnl |-> pnl ]

(***************************************************************************)
(* SpecExit: check_exit called once on arguments drawn from the values the  *)
(* file's test runner uses and the thresholds' neighbours.                  *)
(***************************************************************************)
ExitEntryPrices   == {0, 45, 50}
ExitSides         == {"BUY", "SELL"}
ExitEntryTimes    == {NoneNum, 0}
ExitCurrentPrices == {44, 47, 48, 50, 51, 52, 53, 60}
ExitCurrentTimes  == {300, 361, 480, 780}
ExitAtrs          == {NoneNum, 25, 40}

IdleRisk == risk_mgr = RiskManager(0, MAX_CONSECUTIVE_LOSSES, MIN_TRADES_FOR_WIN_RATE)

InitExit ==
    /\ \E ep \in ExitEntryPrices, sd \in ExitSides, et \in ExitEntryTimes,
          cp \in ExitCurrentPrices, ct \in ExitCurrentTimes, atr \in ExitAtrs :
          arg = [ position |-> [ token_id |-> "tokA", side |-> sd, size |-> 10000,
                                 entry_price |-> ep, entry_time |-> et ],
                  current_price |-> cp, current_time |-> ct, btc_atr |-> atr ]
    /\ ret = [op |-> "none"]
    /\ pc = "call"
    /\ IdleRisk
    /\ open_positions = << >>
    /\ sizer_bankroll = 0
    /\ detector = None
    /\ last_scan_time = NoneNum
    /\ last_exit_check_time = NoneNum
    /\ now = 0

Call_check_exit ==
    /\ pc = "call"
    /\ ret' = [ op |-> "check_exit",
                result |-> check_exit(arg.position, arg.current_price,
                                      arg.current_time, arg.btc_atr) ]
    /\ pc' = "done"
    /\ UNCHANGED << risk_mgr, open_positions, sizer_bankroll, detector, last_scan_time,
                    last_exit_check_time, now, arg >>

NextExit == Call_check_exit

SpecExit == InitExit /\ [][NextExit]_vars

\* The six exit conditions of the decision list, stated on the arguments.
ExitStopLossCond ==
    pnl_num(arg.position, arg.current_price) * 100
        <= -(STOP_LOSS_PCT * pnl_den(arg.position))
ExitTakeProfitCond ==
    pnl_num(arg.position, arg.current_price) * 100
        >= TAKE_PROFIT_PCT * pnl_den(arg.position)
ExitMaxHoldCond ==
    hold_time_seconds(arg.position, arg.current_time) >= MAX_HOLD_TIME_SECONDS
ExitMeanReversionCond ==
    /\ Abs(arg.current_price - 50) <= MEAN_REVERSION_THRESHOLD
    /\ pnl_num(arg.position, arg.current_price) > 0
ExitRegimeBreakCond ==
    arg.btc_atr # NoneNum /\ arg.btc_atr > REGIME_BREAK_ATR
ExitTimePressureCond ==
    /\ MAX_HOLD_TIME_SECONDS - hold_time_seconds(arg.position, arg.current_time) < 120
    /\ pnl_num(arg.position, arg.current_price) * 100 > pnl_den(arg.position)

ExitRuleConds ==
    << ExitStopLossCond, ExitTakeProfitCond, ExitMaxHoldCond,
       ExitMeanReversionCond, ExitRegimeBreakCond, ExitTimePressureCond >>
ExitRuleReasons ==
    << "STOP_LOSS", "TAKE_PROFIT", "MAX_TIME",
       "MEAN_REVERSION", "REGIME_BREAK", "TIME_PRESSURE" >>
ExitRulePriorities == << 1, 1, 1, 2, 2, 3 >>

\* C7: check_exit returns the first rule that matches in the order stop-loss,
\* take-profit, max-hold, mean-reversion, regime-break, time-pressure (and no
\* exit when none matches); so a priority-1 condition always yields a
\* priority-1 reason, and a position past max_hold_seconds whose pnl is at or
\* above take_profit_pct reports TAKE_PROFIT.
C7_ExitFirstMatchWins ==
    ret.op = "check_exit" =>
        /\ \A i \in 1..6 :
              (ExitRuleConds[i] /\ \A j \in 1..(i-1) : ~ExitRuleConds[j])
                  => /\ ret.result.should_exit
                     /\ ret.result.reason = ExitRuleReasons[i]
                     /\ ret.result.priority = ExitRulePriorities[i]
        /\ (\A i \in 1..6 : ~ExitRuleConds[i]) => ~ret.result.should_exit
        /\ (ExitStopLossCond \/ ExitTakeProfitCond \/ ExitMaxHoldCond)
              => ret.result.priority = 1
        /\ (ExitMaxHoldCond /\ ExitTakeProfitCond)
              => ret.result.reason = "TAKE_PROFIT"

\* C7 witness: a position past max hold, above take-profit and inside the
\* mean-reversion band has been decided, and the answer is TAKE_PROFIT.
C7_Witness ==
    /\ ret.op = "check_exit"
    /\ ExitMaxHoldCond /\ ExitTakeProfitCond /\ ExitMeanReversionCond
    /\ ret.result.reason = "TAKE_PROFIT"

\* the price is within mean_reversion_threshold of 0.50
ExitNearFair == Abs(arg.current_price - 50) <= MEAN_REVERSION_THRESHOLD

\* the signed PnL% of the position is not strictly positive
ExitNotProfitable == pnl_num(arg.position, arg.current_price) <= 0

\* C18: check_exit never answers MEAN_REVERSION for a position whose signed
\* PnL% is not strictly positive; when the price is within
\* mean_reversion_threshold of 0.50, PnL% <= 0 and no other rule matches, it
\* answers should_exit = false.
C18_MeanReversionOnlyInProfit ==
    ret.op = "check_exit" =>
        /\ ExitNotProfitable => ret.result.reason # "MEAN_REVERSION"
        /\ ( /\ ExitNearFair
             /\ ExitNotProfitable
             /\ ~ExitStopLossCond
             /\ ~ExitTakeProfitCond
             /\ ~ExitMaxHoldCond
             /\ ~ExitRegimeBreakCond
             /\ ~ExitTimePressureCond )
              => /\ ~ret.result.should_exit
                 /\ ret.result.reason = None

\* C18 witness: a position at break-even with the price at 0.50, young and
\* in a calm regime, has been decided and is held.
C18_Witness ==
    /\ ret.op = "check_exit"
    /\ ExitNearFair
    /\ pnl_num(arg.position, arg.current_price) = 0
    /\ arg.position.entry_price > 0
    /\ ~ExitMaxHoldCond
    /\ ~ExitRegimeBreakCond
    /\ ~ret.result.should_exit


(***************************************************************************)
(* Overreaction detector, time-based (src/Polymarket/07_overreaction_      *)
(* detector.py).  A trade is [price, size, timestamp]: price in cents,     *)
(* size in shares, timestamp in seconds, each NoneNum when the feed has    *)
(* no usable value.  A notional price * size is therefore in cents.        *)
(* The underlying's change is in 1/10000 (0.0035 = 35), min_price_change   *)
(* in percent, volume_multiplier in tenths.                                *)
(***************************************************************************)
MOVE_WINDOW_MINUTES == 5
MIN_PRICE_CHANGE == 3
BTC_MOVE_MAX == 35
VOL_RECENT_MINUTES == 2
VOL_BASELINE_MINUTES == 10
VOLUME_SPIKE_MULTIPLIER == 18
RETAIL_MEDIAN_NOTIONAL_MAX == 4000
RETAIL_MEAN_NOTIONAL_MAX == 6000
RETAIL_FRACTION_MIN == 60
MIN_OVERREACTION_SCORE == 55
RSI_PERIOD == 14
RSI_OVERSOLD == 30
RSI_OVERBOUGHT == 70
RSI_SAMPLE_EVERY_N_TRADES == 3
IMBALANCE_EXTREME == 75

Min(a, b) ==
    IF a <= b THEN a ELSE b

Max(a, b) ==
    IF a >= b THEN a ELSE b

OverreactionDetector(move_window_minutes, min_price_change, min_score) ==
    [ move_window_minutes |-> move_window_minutes,
      min_price_change    |-> min_price_change,
      btc_move_max        |-> BTC_MOVE_MAX,
      volume_multiplier   |-> VOLUME_SPIKE_MULTIPLIER,
      min_score           |-> min_score,
      use_rsi             |-> TRUE ]

\* recent_trades[-n:] and the like: the last n elements of a list.
LastN(s, n) ==
    IF Len(s) <= n THEN s ELSE SubSeq(s, Len(s) - n + 1, Len(s))

RECURSIVE SumSeq(_)
SumSeq(s) ==
    IF s = <<>> THEN 0 ELSE Head(s) + SumSeq(Tail(s))

\* sorted(s)[k], k counted from 0.
sorted_at(s, k) ==
    CHOOSE x \in { s[i] : i \in 1..Len(s) } :
        /\ Cardinality({ i \in 1..Len(s) : s[i] < x }) <= k
        /\ k < Cardinality({ i \in 1..Len(s) : s[i] <= x })

_window_trades(trades, start, end) ==
    SelectSeq(trades, LAMBDA t : t.timestamp # NoneNum
                                 /\ start <= t.timestamp /\ t.timestamp <= end)

\* Index of the most recent trade at/before cutoff (0 when there is none);
\* among equal timestamps the first in list order wins.
RECURSIVE _last_trade_before_from(_, _, _, _)
_last_trade_before_from(trades, cutoff, i, best) ==
    IF i > Len(trades) THEN best
    ELSE LET ts == trades[i].timestamp
         IN  IF ts = NoneNum \/ ts > cutoff
             THEN _last_trade_before_from(trades, cutoff, i + 1, best)
             ELSE IF best = 0 \/ ts > trades[best].timestamp
                  THEN _last_trade_before_from(trades, cutoff, i + 1, i)
                  ELSE _last_trade_before_from(trades, cutoff, i + 1, best)

_last_trade_before(trades, cutoff) ==
    _last_trade_before_from(trades, cutoff, 1, 0)

\* Notionals of the trades that have both a price and a size.
notionals_of(trs) ==
    LET priced == SelectSeq(trs, LAMBDA t : t.price # NoneNum /\ t.size # NoneNum)
    IN  [ i \in 1..Len(priced) |-> priced[i].price * priced[i].size ]

sum_notional(trs) ==
    SumSeq(notionals_of(trs))

_orderbook_imbalance_extreme(orderbook) ==
    LET total == orderbook.bid_depth + orderbook.ask_depth
    IN  /\ total > 0
        /\ \/ orderbook.bid_depth * 100 >= IMBALANCE_EXTREME * total
           \/ orderbook.bid_depth * 100 <= (100 - IMBALANCE_EXTREME) * total

\* mutant: a series without gains and without losses is neutral
calculate_rsi_flat_neutral(prices, period) ==
    IF Len(prices) < period + 1 THEN [ num |-> 50, den |-> 1 ]
    ELSE LET n      == Len(prices)
             deltas == [ i \in 1..(n - 1) |-> prices[i + 1] - prices[i] ]
             lastd  == LastN(deltas, period)
             gain   == SumSeq([ i \in 1..Len(lastd) |-> Max(lastd[i], 0) ])
             loss   == SumSeq([ i \in 1..Len(lastd) |-> Max(-lastd[i], 0) ])
         IN  IF gain + loss = 0 THEN [ num |-> 50, den |-> 1 ]
             ELSE [ num |-> 100 * gain, den |-> gain + loss ]

\* calculate_rsi as the fraction num/den (src/Polymarket/02_indicators.py).
calculate_rsi(prices, period) ==
    IF Len(prices) < period + 1 THEN [ num |-> 50, den |-> 1 ]
    ELSE LET n      == Len(prices)
             deltas == [ i \in 1..(n - 1) |-> prices[i + 1] - prices[i] ]
             lastd  == LastN(deltas, period)
             gain   == SumSeq([ i \in 1..Len(lastd) |-> Max(lastd[i], 0) ])
             loss   == SumSeq([ i \in 1..Len(lastd) |-> Max(-lastd[i], 0) ])
         IN  IF loss = 0 THEN [ num |-> 100, den |-> 1 ]
             ELSE [ num |-> 100 * gain, den |-> gain + loss ]

NoSignal ==
    [ signal |-> FALSE ]

\* str.strip().lower() on the outcome labels the markets carry.
strip_lower(label) ==
    CASE label \in { "Up", "UP", " up " }    -> "up"
      [] label \in { "Down", "DOWN", "down" } -> "down"
      [] label \in { "Yes", "YES", "yes " }   -> "yes"
      [] label \in { "No", "NO", "no" }       -> "no"
      [] label = "Over"                       -> "over"
      [] label = "Under"                      -> "under"
      [] OTHER                                -> label

sharp_move_gate_closed_unit_slip(self, current_price, p_ref) ==
    Abs(current_price - p_ref) * 100 * 100 < self.min_price_change * p_ref

\* if abs_move < self.min_price_change: return None
sharp_move_gate_closed(self, current_price, p_ref) ==
    Abs(current_price - p_ref) * 100 < self.min_price_change * p_ref

\* 35 + min(15, int((abs_move - min_price_change) / 0.01) * 3), capped at 50
\* mutant: +3 per extra 1% without the limit of 15
sharp_move_score_unlimited(self, current_price, p_ref) ==
    LET extra == (Abs(current_price - p_ref) * 100 - self.min_price_change * p_ref) \div p_ref
    IN  35 + extra * 3

sharp_move_score(self, current_price, p_ref) ==
    LET extra == (Abs(current_price - p_ref) * 100 - self.min_price_change * p_ref) \div p_ref
    IN  Min(35 + Min(15, extra * 3), 50)

fade_direction_inverted(current_price, p_ref) ==
    IF current_price - p_ref > 0 THEN "FADE_DOWN" ELSE "FADE_UP"

fade_direction(current_price, p_ref) ==
    IF current_price - p_ref > 0 THEN "FADE_UP" ELSE "FADE_DOWN"

btc_mismatch(self, btc_price_change_5min) ==
    /\ btc_price_change_5min # NoneNum
    /\ Abs(btc_price_change_5min) <= self.btc_move_max

\* Trades of the move window, or the last 20 trades when fewer than 8 fall in it.
retail_window(self, recent_trades, now_ts) ==
    LET w == _window_trades(recent_trades, now_ts - 60 * self.move_window_minutes, now_ts)
    IN  IF Len(w) < 8 THEN LastN(recent_trades, 20) ELSE w

retail_panic(window_trades) ==
    LET notionals == notionals_of(window_trades)
        n         == Len(notionals)
        med       == sorted_at(notionals, n \div 2)
        small     == Cardinality({ i \in 1..n : notionals[i] <= RETAIL_MEDIAN_NOTIONAL_MAX })
    IN  /\ n > 0
        /\ \/ /\ med <= RETAIL_MEDIAN_NOTIONAL_MAX
              /\ SumSeq(notionals) <= RETAIL_MEAN_NOTIONAL_MAX * n
           \/ small * 100 >= RETAIL_FRACTION_MIN * n

\* recent / (base / (baseline - recent minutes) * recent minutes) >= multiplier
volume_spike(self, recent_trades, now_ts) ==
    LET vol_recent_start == now_ts - 60 * VOL_RECENT_MINUTES
        vol_base_start   == now_ts - 60 * VOL_BASELINE_MINUTES
        recent_notional  == sum_notional(_window_trades(recent_trades, vol_recent_start, now_ts))
        base_notional    == sum_notional(_window_trades(recent_trades, vol_base_start, vol_recent_start))
    IN  /\ base_notional > 0
        /\ recent_notional * (VOL_BASELINE_MINUTES - VOL_RECENT_MINUTES) * 10
             >= self.volume_multiplier * base_notional * VOL_RECENT_MINUTES

rsi_extreme(self, window_trades, recent_prices) ==
    LET idx      == SelectSeq([ i \in 1..Len(window_trades) |-> i ],
                              LAMBDA i : (i - 1) % RSI_SAMPLE_EVERY_N_TRADES = 0
                                         /\ window_trades[i].price # NoneNum)
        sampled  == [ k \in 1..Len(idx) |-> window_trades[idx[k]].price ]
        prices   == IF Len(sampled) < RSI_PERIOD + 2 /\ recent_prices # <<>>
                    THEN LastN(recent_prices, Max(30, RSI_PERIOD + 5))
                    ELSE sampled
        rsi      == calculate_rsi(prices, RSI_PERIOD)
    IN  /\ self.use_rsi
        /\ Len(prices) >= RSI_PERIOD + 1
        /\ \/ rsi.num <= RSI_OVERSOLD * rsi.den
           \/ rsi.num >= RSI_OVERBOUGHT * rsi.den

recommended_outcome_same_side(outcome_label, fade) ==
    IF outcome_label = None \/ outcome_label = "" THEN None
    ELSE LET lab == strip_lower(outcome_label)
         IN  IF fade = "FADE_UP"
             THEN CASE lab = "up"   -> "Down"
                    [] lab = "yes"  -> "No"
                    [] lab = "down" -> "Up"
                    [] lab = "no"   -> "Yes"
                    [] OTHER        -> None
             ELSE CASE lab = "up"   -> "Up"
                    [] lab = "yes"  -> "Yes"
                    [] lab = "down" -> "Down"
                    [] lab = "no"   -> "No"
                    [] OTHER        -> None

recommended_outcome(outcome_label, fade) ==
    IF outcome_label = None \/ outcome_label = "" THEN None
    ELSE LET lab == strip_lower(outcome_label)
         IN  IF fade = "FADE_UP"
             THEN CASE lab = "up"   -> "Down"
                    [] lab = "yes"  -> "No"
                    [] lab = "down" -> "Up"
                    [] lab = "no"   -> "Yes"
                    [] OTHER        -> None
             ELSE CASE lab = "up"   -> "Down"
                    [] lab = "yes"  -> "No"
                    [] lab = "down" -> "Up"
                    [] lab = "no"   -> "Yes"
                    [] OTHER        -> None

detect(self, current_price, recent_prices, recent_trades, orderbook, btc_price_change_5min, outcome_label, now_ts) ==
    IF Len(recent_trades) < 10 THEN NoSignal
    ELSE IF current_price = NoneNum /\ recent_trades[Len(recent_trades)].price = NoneNum
    THEN NoSignal
    ELSE
    LET price  == IF current_price = NoneNum
                  THEN recent_trades[Len(recent_trades)].price ELSE current_price
        cutoff == now_ts - 60 * self.move_window_minutes
        i_ref  == _last_trade_before(recent_trades, cutoff)
        p_ref  == IF i_ref # 0 /\ recent_trades[i_ref].price # NoneNum
                  THEN recent_trades[i_ref].price ELSE recent_trades[1].price
    IN  IF p_ref = NoneNum \/ p_ref <= 0 THEN NoSignal
        ELSE IF sharp_move_gate_closed(self, price, p_ref) THEN NoSignal
        ELSE
        LET window_trades == retail_window(self, recent_trades, now_ts)
            fade  == fade_direction(price, p_ref)
            total == sharp_move_score(self, price, p_ref)
                     + (IF btc_mismatch(self, btc_price_change_5min) THEN 20 ELSE 0)
                     + (IF retail_panic(window_trades) THEN 15 ELSE 0)
                     + (IF volume_spike(self, recent_trades, now_ts) THEN 15 ELSE 0)
                     + (IF _orderbook_imbalance_extreme(orderbook) THEN 10 ELSE 0)
                     + (IF rsi_extreme(self, window_trades, recent_prices) THEN 10 ELSE 0)
            score == Min(total, 100)
        IN  IF score >= self.min_score
            THEN [ signal              |-> TRUE,
                   action              |-> "BUY",
                   fade_direction      |-> fade,
                   recommended_outcome |-> recommended_outcome(outcome_label, fade),
                   confidence          |-> score,
                   score               |-> score,
                   expected_edge       |-> score * 6,
                   current_price       |-> price,
                   ref_price           |-> p_ref ]
            ELSE NoSignal

(***************************************************************************)
(* Overreaction detector, count-based (src/07_overreaction_detector.py).   *)
(* The reference is the tenth price from the end of recent_prices; trade   *)
(* sizes are taken as dollars.                                             *)
(***************************************************************************)
COUNT_MIN_PRICE_CHANGE == 5
COUNT_VOLUME_SPIKE_MULTIPLIER == 20
SMALL_TRADE_SIZE == 50
COUNT_MIN_OVERREACTION_SCORE == 60

CountDetector(min_price_change, min_score) ==
    [ min_price_change  |-> min_price_change,
      volume_multiplier |-> COUNT_VOLUME_SPIKE_MULTIPLIER,
      small_trade_size  |-> SMALL_TRADE_SIZE,
      min_score         |-> min_score,
      rsi_oversold      |-> RSI_OVERSOLD,
      rsi_overbought    |-> RSI_OVERBOUGHT ]

sizes_of(trs) ==
    [ i \in 1..Len(trs) |-> trs[i].size ]

\* if abs(price_change) > self.min_price_change: score += 30
count_sharp_move(self, current_price, price_5min_ago) ==
    /\ price_5min_ago > 0
    /\ Abs(current_price - price_5min_ago) * 100 > self.min_price_change * price_5min_ago

count_volume_spike(self, recent_trades, btc_price_change_5min) ==
    LET recent_volume == SumSeq(sizes_of(LastN(recent_trades, 10)))
        total_volume  == SumSeq(sizes_of(recent_trades))
    IN  /\ Len(recent_trades) >= 20
        /\ total_volume > 0
        /\ recent_volume * Len(recent_trades) > self.volume_multiplier * total_volume
        /\ Abs(btc_price_change_5min) < 20

count_small_trades(self, recent_trades) ==
    /\ Len(recent_trades) >= 10
    /\ SumSeq(sizes_of(LastN(recent_trades, 10))) < self.small_trade_size * 10

\* side depth < (bid_depth + ask_depth) / 2 * 0.7
count_depth_thin(side, orderbook) ==
    LET total == orderbook.bid_depth + orderbook.ask_depth
        depth == IF side = "BUY" THEN orderbook.ask_depth ELSE orderbook.bid_depth
    IN  depth * 20 < total * 7

count_rsi_extreme(self, recent_prices) ==
    LET rsi == calculate_rsi(recent_prices, 14)
    IN  /\ Len(recent_prices) >= 14
        /\ \/ rsi.num > self.rsi_overbought * rsi.den
           \/ rsi.num < self.rsi_oversold * rsi.den

detect_count(self, current_price, recent_prices, recent_trades, orderbook, btc_price_change_5min) ==
    IF Len(recent_prices) < 10 THEN NoSignal
    ELSE
    LET price_5min_ago == recent_prices[Len(recent_prices) - 9]
    IN  IF ~count_sharp_move(self, current_price, price_5min_ago) THEN NoSignal
        ELSE
        LET side  == IF current_price - price_5min_ago > 0 THEN "BUY" ELSE "SELL"
            score == 30
                     + (IF count_volume_spike(self, recent_trades, btc_price_change_5min)
                        THEN 25 ELSE 0)
                     + (IF count_small_trades(self, recent_trades) THEN 20 ELSE 0)
                     + (IF count_depth_thin(side, orderbook) THEN 15 ELSE 0)
                     + (IF count_rsi_extreme(self, recent_prices) THEN 10 ELSE 0)
        IN  IF score >= self.min_score
            THEN [ signal              |-> TRUE,
                   side                |-> side,
                   confidence          |-> Min(score, 100),
                   score               |-> score,
                   expected_edge       |-> score * 8,
                   current_price       |-> current_price ]
            ELSE NoSignal

(***************************************************************************)
(* Detector specification: one call of detect on a market snapshot drawn   *)
(* from bounded sets.  The clock reads DetectNow; DetectNow - 300 is the   *)
(* cutoff of the five-minute move window.                                  *)
(***************************************************************************)
DetectNow == 1000

Trade(price, size, timestamp) ==
    [ price |-> price, size |-> size, timestamp |-> timestamp ]

\* n trades every step seconds from t0 on; those at/before the cutoff at
\* price p_old, the later ones at p_new; the last burst trades carry
\* three times the size.
Tape(n, t0, step, p_old, p_new, size, burst) ==
    [ i \in 1..n |->
        LET ts == t0 + step * (i - 1)
        IN  Trade(IF ts <= DetectNow - 300 THEN p_old ELSE p_new,
                  IF i > n - burst THEN 3 * size ELSE size,
                  ts) ]

\* A feed with holes: every fourth trade has no timestamp, the third has
\* no price.
Gappy(tape) ==
    [ i \in 1..Len(tape) |->
        Trade(IF i = 3 THEN NoneNum ELSE tape[i].price,
              tape[i].size,
              IF i % 4 = 0 THEN NoneNum ELSE tape[i].timestamp) ]

\* The trades of tape, latest first.
NewestFirst(tape) ==
    [ i \in 1..Len(tape) |-> tape[Len(tape) + 1 - i] ]

\* n trades every step seconds from t0 on, all inside the move window: the
\* older half at price p_old, the later half at p_new.
Rise(n, t0, step, p_old, p_new, size) ==
    [ i \in 1..n |->
        Trade(IF 2 * i <= n THEN p_old ELSE p_new, size, t0 + step * (i - 1)) ]

TapeKinds == { "calm", "burst", "short", "fresh", "gappy",
               "calm_newest_first", "rise_newest_first" }

TradeSizes == { 20, 200 }

MakeTape(kind, p_old, p_new, size) ==
    CASE kind = "calm"  -> Tape(20, 520, 25, p_old, p_new, size, 0)
      [] kind = "burst" -> Tape(20, 520, 25, p_old, p_new, size, 5)
      [] kind = "short" -> Tape(9, 600, 40, p_old, p_new, size, 0)
      [] kind = "fresh" -> Tape(12, 720, 20, p_old, p_new, size, 0)
      [] kind = "gappy" -> Gappy(Tape(20, 520, 25, p_old, p_new, size, 0))
      [] kind = "calm_newest_first" ->
             NewestFirst(Tape(20, 520, 25, p_old, p_new, size, 0))
      [] kind = "rise_newest_first" ->
             NewestFirst(Rise(12, 720, 20, p_old, p_new, size))

PriceKinds == { "choppy", "jump", "short" }

MakePrices(kind, p_old, p_new) ==
    CASE kind = "choppy" -> [ i \in 1..30 |-> IF i % 2 = 1 THEN p_old ELSE p_old + 1 ]
      [] kind = "jump"   -> [ i \in 1..30 |-> IF i = 30 THEN p_new ELSE p_old ]
      [] kind = "short"  -> [ i \in 1..9 |-> p_old ]

\* <<reference price, latest price>> in cents.
PricePaths == { <<50, 52>>, <<50, 56>>, <<50, 44>>, <<50, 50>>, <<50, 53>> }

OrderBooks == { [ bid_depth |-> 500, ask_depth |-> 500 ],
                [ bid_depth |-> 900, ask_depth |-> 100 ],
                [ bid_depth |-> 0,   ask_depth |-> 0 ] }

BtcChanges == { 0, 36, -50 }

\* The two outcome labels of a market.
MarketLabels == { <<"Up", "Down">>, <<"YES", "NO">>, <<" up ", "DOWN">>, <<"Over", "Under">> }

DetectorConfigs == { <<MIN_PRICE_CHANGE, COUNT_MIN_PRICE_CHANGE>>, <<5, 5>> }

InitDetect ==
    /\ IdleRisk
    /\ open_positions = << >>
    /\ sizer_bankroll = 0
    /\ detector = None
    /\ last_scan_time = NoneNum
    /\ last_exit_check_time = NoneNum
    /\ pc = "call"
    /\ ret = [ op |-> "none" ]
    /\ now = DetectNow
    /\ \E path \in PricePaths, tk \in TapeKinds, size \in TradeSizes, pk \in PriceKinds,
          ob \in OrderBooks, btc \in BtcChanges, labels \in MarketLabels,
          cfg \in DetectorConfigs, quoted \in BOOLEAN, which \in 0..2 :
          arg = [ self   |-> OverreactionDetector(MOVE_WINDOW_MINUTES, cfg[1],
                                                  MIN_OVERREACTION_SCORE),
                  self_count |-> CountDetector(cfg[2], COUNT_MIN_OVERREACTION_SCORE),
                  current_price |-> IF quoted THEN path[2] ELSE NoneNum,
                  recent_prices |-> MakePrices(pk, path[1], path[2]),
                  recent_trades |-> MakeTape(tk, path[1], path[2], size),
                  orderbook     |-> ob,
                  btc_price_change_5min |-> btc,
                  labels        |-> labels,
                  outcome_label |-> IF which = 0 THEN None ELSE labels[which] ]

Call_detect ==
    /\ pc = "call"
    /\ ret' = [ op |-> "detect",
                result |-> detect(arg.self, arg.current_price, arg.recent_prices,
                                  arg.recent_trades, arg.orderbook,
                                  arg.btc_price_change_5min, arg.outcome_label, now) ]
    /\ pc' = "done"
    /\ UNCHANGED << risk_mgr, open_positions, sizer_bankroll, detector, last_scan_time,
                    last_exit_check_time, now, arg >>

\* The caller passes float(current_price) and no outcome label.
Call_detect_count ==
    /\ pc = "call"
    /\ arg.current_price # NoneNum
    /\ ret' = [ op |-> "detect_count",
                result |-> detect_count(arg.self_count, arg.current_price,
                                        arg.recent_prices, arg.recent_trades,
                                        arg.orderbook, arg.btc_price_change_5min) ]
    /\ pc' = "done"
    /\ UNCHANGED << risk_mgr, open_positions, sizer_bankroll, detector, last_scan_time,
                    last_exit_check_time, now, arg >>

NextDetect ==
    \/ Call_detect
    \/ Call_detect_count

SpecDetect == InitDetect /\ [][NextDetect]_vars

\* The inputs of the call as the claims name them: the price the move ends
\* at, and the reference price it starts from (time-based: the price of the
\* latest trade stamped at or before now - move_window, else of the oldest
\* trade; count-based: the tenth price from the end).
DetectCurrentPrice ==
    IF arg.current_price # NoneNum THEN arg.current_price
    ELSE arg.recent_trades[Len(arg.recent_trades)].price

DetectTimeReference ==
    LET trades   == arg.recent_trades
        cutoff   == now - 60 * arg.self.move_window_minutes
        eligible == { i \in 1..Len(trades) :
                        trades[i].timestamp # NoneNum /\ trades[i].timestamp <= cutoff }
        latest   == { i \in eligible :
                        \A j \in eligible : trades[j].timestamp <= trades[i].timestamp }
        first    == CHOOSE i \in latest : \A j \in latest : i <= j
    IN  IF eligible # {} /\ trades[first].price # NoneNum
        THEN trades[first].price ELSE trades[1].price

DetectCountReference ==
    IF Len(arg.recent_prices) >= 10
    THEN arg.recent_prices[Len(arg.recent_prices) - 9] ELSE NoneNum

\* The reference price as the detector's comments describe it: the price of
\* the trade with the greatest timestamp at or before now - move_window,
\* else of the trade with the smallest timestamp.
DetectOldestTrade ==
    LET trades == arg.recent_trades
        stamped == { i \in 1..Len(trades) : trades[i].timestamp # NoneNum }
    IN  CHOOSE i \in stamped : \A j \in stamped :
            \/ trades[i].timestamp < trades[j].timestamp
            \/ (trades[i].timestamp = trades[j].timestamp /\ i <= j)

DetectLatestBeforeCutoff ==
    LET trades   == arg.recent_trades
        cutoff   == now - 60 * arg.self.move_window_minutes
    IN  { i \in 1..Len(trades) :
            /\ trades[i].timestamp # NoneNum
            /\ trades[i].timestamp <= cutoff
            /\ \A j \in 1..Len(trades) :
                  (trades[j].timestamp # NoneNum /\ trades[j].timestamp <= cutoff)
                      => trades[j].timestamp <= trades[i].timestamp }

\* C22: for trades supplied in any order, detect's reference price is the
\* price of the trade with the greatest timestamp at or before
\* now - move_window; when no trade is at or before that cutoff it is the
\* price of the trade with the smallest timestamp, wherever it stands in
\* the list.
C22_ReferenceIsLatestBeforeCutoffElseOldest ==
    (ret.op = "detect" /\ ret.result.signal) =>
        IF DetectLatestBeforeCutoff # {}
        THEN \E i \in DetectLatestBeforeCutoff :
                ret.result.ref_price = arg.recent_trades[i].price
        ELSE ret.result.ref_price = arg.recent_trades[DetectOldestTrade].price

\* C8: the sharp-move test is a hard gate in both detectors: whatever the
\* underlying change, trade sizes, volumes, order book and RSI are, detect
\* returns no signal when |current - reference| / reference is below
\* min_price_change.
C8_SharpMoveIsHardGate ==
    pc = "done" =>
        LET time_based == ret.op = "detect"
            ref == IF time_based THEN DetectTimeReference ELSE DetectCountReference
            mpc == IF time_based THEN arg.self.min_price_change
                   ELSE arg.self_count.min_price_change
            cur == DetectCurrentPrice
        IN  (ref > 0 /\ cur # NoneNum /\ Abs(cur - ref) * 100 < mpc * ref)
                => ~ret.result.signal

\* A 4% move (0.50 -> 0.52) under min_price_change = 5% with the underlying
\* flat, retail-sized trades and a one-sided book: every bonus is available
\* and there is still no signal.
C8_Witness ==
    /\ pc = "done"
    /\ ret.op = "detect"
    /\ arg.self.min_price_change = 5
    /\ arg.current_price = 52
    /\ DetectTimeReference = 50
    /\ Len(arg.recent_trades) = 20
    /\ btc_mismatch(arg.self, arg.btc_price_change_5min)
    /\ retail_panic(retail_window(arg.self, arg.recent_trades, now))
    /\ _orderbook_imbalance_extreme(arg.orderbook)
    /\ ~ret.result.signal

\* The 0.50 -> 0.56 scenario of the detector gate: five-minute window,
\* min_price_change 5%, a tape of at least ten trades, a label to analyse.
DetectAt056 ==
    /\ pc = "done"
    /\ ret.op = "detect"
    /\ arg.self.move_window_minutes = 5
    /\ arg.self.min_price_change = 5
    /\ Len(arg.recent_trades) >= 10
    /\ DetectTimeReference = 50
    /\ DetectCurrentPrice = 56
    /\ arg.outcome_label # None

OtherLabel ==
    IF arg.outcome_label = arg.labels[1] THEN arg.labels[2] ELSE arg.labels[1]

\* The complement the detector can name: only for up/down/yes/no labels.
CanonicalComplement(label) ==
    CASE label \in { "Up", " up " }  -> "Down"
      [] label \in { "Down", "DOWN" } -> "Up"
      [] label = "YES"                -> "No"
      [] label = "NO"                 -> "Yes"
      [] OTHER                        -> None

DetectAnyBonus ==
    \/ btc_mismatch(arg.self, arg.btc_price_change_5min)
    \/ retail_panic(retail_window(arg.self, arg.recent_trades, now))
    \/ volume_spike(arg.self, arg.recent_trades, now)
    \/ _orderbook_imbalance_extreme(arg.orderbook)
    \/ rsi_extreme(arg.self, retail_window(arg.self, arg.recent_trades, now),
                   arg.recent_prices)

\* C9 as stated: reference 0.50 and current 0.56 always give a signal with
\* fade_direction FADE_UP and the complement of the analysed label.
C9_AlwaysSignalAt056 ==
    DetectAt056 =>
        /\ ret.result.signal
        /\ ret.result.fade_direction = "FADE_UP"
        /\ strip_lower(ret.result.recommended_outcome) = strip_lower(OtherLabel)

\* C9 amended: in that scenario the move alone scores 50, below min_score
\* 55; detect returns a signal exactly when at least one bonus factor
\* triggers, and the signal then has fade_direction FADE_UP and names the
\* complement of an up/down/yes/no label (no outcome for any other label).
C9_SignalAt056WhenScored ==
    DetectAt056 =>
        /\ ret.result.signal <=> DetectAnyBonus
        /\ ret.result.signal =>
              /\ ret.result.fade_direction = "FADE_UP"
              /\ ret.result.score >= arg.self.min_score
              /\ ret.result.recommended_outcome = CanonicalComplement(arg.outcome_label)

C9_Witness ==
    /\ DetectAt056
    /\ ret.result.signal
    /\ ret.result.fade_direction = "FADE_UP"
    /\ arg.outcome_label = "Up"
    /\ ret.result.recommended_outcome = "Down"

\* C10 as stated: a signal for a labelled token always recommends the other
\* label of the market, for every label and both fade directions.
C10_AlwaysOtherLabel ==
    (pc = "done" /\ ret.op = "detect" /\ ret.result.signal /\ arg.outcome_label # None)
        => /\ ret.result.recommended_outcome # None
           /\ strip_lower(ret.result.recommended_outcome) = strip_lower(OtherLabel)
           /\ ret.result.recommended_outcome # arg.outcome_label

\* C10 amended: for a label that is up, down, yes or no (ignoring case and
\* surrounding blanks) the signal recommends the complement "Down", "Up",
\* "No" or "Yes" in both fade directions, never nothing and never the
\* analysed label; for any other label it recommends nothing.
C10_ComplementForKnownLabels ==
    (pc = "done" /\ ret.op = "detect" /\ ret.result.signal /\ arg.outcome_label # None)
        => /\ ret.result.recommended_outcome = CanonicalComplement(arg.outcome_label)
           /\ strip_lower(arg.outcome_label) \in { "up", "down", "yes", "no" }
                 => /\ ret.result.recommended_outcome # None
                    /\ strip_lower(ret.result.recommended_outcome)
                          # strip_lower(arg.outcome_label)
                    /\ strip_lower(ret.result.recommended_outcome)
                          = strip_lower(OtherLabel)
           /\ strip_lower(arg.outcome_label) \notin { "up", "down", "yes", "no" }
                 => ret.result.recommended_outcome = None

C10_Witness ==
    /\ pc = "done"
    /\ ret.op = "detect"
    /\ ret.result.signal
    /\ ret.result.fade_direction = "FADE_DOWN"
    /\ arg.outcome_label = "DOWN"
    /\ ret.result.recommended_outcome = "Up"

(***************************************************************************)
(* Position sizer (src/Polymarket/08_position_sizer.py).  edge is in       *)
(* 1/10000, confidence and regime_score in percent, market_depth in        *)
(* dollars; sizes are whole cents, fractions of a cent dropped.            *)
(***************************************************************************)
MAX_POSITION_PCT == 2
KELLY_FRACTION == 25
MAX_MARKET_DEPTH_PCT == 5
MIN_TRADE_SIZE == 1000
MAX_TRADE_SIZE == 20000

\* bankroll * ((edge * confidence) / 0.5) * kelly_fraction, in cents:
\* bankroll * edge * confidence * KELLY_FRACTION / 50000000, computed on
\* the thousands and the rest of the bankroll to stay within machine words.
kelly_size(bankroll, edge, confidence) ==
    LET k  == edge * confidence
        bh == bankroll \div 1000
        bl == bankroll % 1000
        c  == 50000000 \div (KELLY_FRACTION * 1000)
        a  == k * bh
    IN  (a \div c) + (((a % c) * 1000 + k * bl) \div (c * 1000))

\* mutant: the minimum trade size is not tested
capped_size_no_minimum(kelly, adjusted, cap1, cap2) ==
    LET after1 == Min(adjusted, cap1)
        after2 == Min(after1, cap2)
        after3 == Min(after2, MAX_TRADE_SIZE)
        caps   == (IF adjusted > cap1 THEN << "bankroll" >> ELSE << >>)
                  \o (IF after1 > cap2 THEN << "depth" >> ELSE << >>)
                  \o (IF after2 > MAX_TRADE_SIZE THEN << "max_trade" >> ELSE << >>)
    IN  [ tradeable |-> TRUE, final_size |-> after3, kelly_size |-> kelly,
          caps_applied |-> caps ]

\* mutant: the market-depth cap is not applied
capped_size_no_depth_cap(kelly, adjusted, cap1, cap2) ==
    LET after1 == Min(adjusted, cap1)
        after3 == Min(after1, MAX_TRADE_SIZE)
        caps   == (IF adjusted > cap1 THEN << "bankroll" >> ELSE << >>)
                  \o (IF after1 > MAX_TRADE_SIZE THEN << "max_trade" >> ELSE << >>)
    IN  IF after3 < MIN_TRADE_SIZE
        THEN [ tradeable |-> FALSE, final_size |-> 0, kelly_size |-> kelly,
               caps_applied |-> caps ]
        ELSE [ tradeable |-> TRUE, final_size |-> after3, kelly_size |-> kelly,
               caps_applied |-> caps ]

\* Steps 3 to 6 of calculate_size: the three caps in order, then the minimum.
capped_size(kelly, adjusted, cap1, cap2) ==
    LET after1 == Min(adjusted, cap1)
        after2 == Min(after1, cap2)
        after3 == Min(after2, MAX_TRADE_SIZE)
        caps   == (IF adjusted > cap1 THEN << "bankroll" >> ELSE << >>)
                  \o (IF after1 > cap2 THEN << "depth" >> ELSE << >>)
                  \o (IF after2 > MAX_TRADE_SIZE THEN << "max_trade" >> ELSE << >>)
    IN  IF after3 < MIN_TRADE_SIZE
        THEN [ tradeable |-> FALSE, final_size |-> 0, kelly_size |-> kelly,
               caps_applied |-> caps ]
        ELSE [ tradeable |-> TRUE, final_size |-> after3, kelly_size |-> kelly,
               caps_applied |-> caps ]

regime_adjusted(kelly, regime_score) ==
    IF regime_score # NoneNum THEN MulDiv(kelly, regime_score, 100) ELSE kelly

calculate_size(bankroll, edge, confidence, market_depth, regime_score) ==
    capped_size(kelly_size(bankroll, edge, confidence),
                regime_adjusted(kelly_size(bankroll, edge, confidence), regime_score),
                MulDiv(bankroll, MAX_POSITION_PCT, 100),
                market_depth * MAX_MARKET_DEPTH_PCT)

update_bankroll(new_bankroll) ==
    new_bankroll

(***************************************************************************)
(* SpecSize: calculate_size called on one signal for two market depths,    *)
(* with the values the file's test runner uses and their neighbours.       *)
(***************************************************************************)
SizeBankrolls == { 100000, 500000, 10000000 }
SizeEdges == { 100, 500, 800 }
SizeConfidences == { 50, 75, 90 }
SizeDepths == { 50, 200, 300, 400, 5000 }
SizeRegimeScores == { NoneNum, 60, 100 }

InitSize ==
    /\ IdleRisk
    /\ open_positions = << >>
    /\ \E b \in SizeBankrolls : sizer_bankroll = b
    /\ detector = None
    /\ last_scan_time = NoneNum
    /\ last_exit_check_time = NoneNum
    /\ pc = "call"
    /\ now = 0
    /\ ret = [ op |-> "none", results |-> << >> ]
    /\ \E e \in SizeEdges, c \in SizeConfidences, d1 \in SizeDepths, d2 \in SizeDepths,
          r \in SizeRegimeScores :
          arg = [ edge |-> e, confidence |-> c, market_depths |-> << d1, d2 >>,
                  regime_score |-> r ]

Call_calculate_size ==
    /\ pc = "call"
    /\ Len(ret.results) < Len(arg.market_depths)
    /\ ret' = [ op |-> "calculate_size",
                results |-> Append(ret.results,
                                   calculate_size(sizer_bankroll, arg.edge, arg.confidence,
                                                  arg.market_depths[Len(ret.results) + 1],
                                                  arg.regime_score)) ]
    /\ pc' = IF Len(ret.results) + 1 = Len(arg.market_depths) THEN "done" ELSE "call"
    /\ UNCHANGED << risk_mgr, open_positions, sizer_bankroll, detector, last_scan_time,
                    last_exit_check_time, now, arg >>

NextSize ==
    Call_calculate_size

SpecSize == InitSize /\ [][NextSize]_vars

(***************************************************************************)
(* Regime filter (src/06_regime_filter.py).  Token prices are in 1/10000   *)
(* of a dollar (0.55 = 5500), a mid in 1/20000 (bid + ask), BTC prices in  *)
(* any one unit (only ratios are used), depths in shares, the regime score *)
(* in percent.                                                             *)
(***************************************************************************)
MAX_BTC_ATR == 15
MAX_BB_WIDTH == 20
MAX_SPREAD_ABS == 1500
MIN_MID_PRICE == 1000
MAX_MID_PRICE == 9000
MIN_ORDERBOOK_BALANCE == 40
MAX_ORDERBOOK_BALANCE == 60

RegimeFilter(max_spread_abs) ==
    [ max_atr        |-> MAX_BTC_ATR,
      max_bb_width   |-> MAX_BB_WIDTH,
      max_spread_abs |-> max_spread_abs,
      min_mid_price  |-> MIN_MID_PRICE,
      max_mid_price  |-> MAX_MID_PRICE,
      min_balance    |-> MIN_ORDERBOOK_BALANCE,
      max_balance    |-> MAX_ORDERBOOK_BALANCE ]

\* A Gamma market dict: slug, CLOB token ids and outcome labels.
Market(slug, token_ids, outcomes) ==
    [ slug |-> slug, token_ids |-> token_ids, outcomes |-> outcomes ]

\* get_active_btc_eth_15m_updown_markets: the markets of the trading window.
Markets ==
    << Market("mktA", << "A1", "A2" >>, << "Up", "Down" >>),
       Market("mktB", << "B1", "B2" >>, << "Yes", "No" >>) >>

\* PolymarketClient.get_orderbook: the book of a token, or no book at all.
NoBook ==
    [ fetched |-> FALSE ]

Book(bids, asks) ==
    [ fetched   |-> TRUE,
      bids      |-> bids,
      asks      |-> asks,
      best_bid  |-> IF bids # << >> THEN bids[1].price ELSE NoneNum,
      best_ask  |-> IF asks # << >> THEN asks[1].price ELSE NoneNum,
      bid_depth |-> SumSeq([ i \in 1..Min(5, Len(bids)) |-> bids[i].size ]),
      ask_depth |-> SumSeq([ i \in 1..Min(5, Len(asks)) |-> asks[i].size ]) ]

\* A price given in 0..1 is kept, one in 1..100 is read as cents.
_normalize_price_0_1(p) ==
    IF p = NoneNum THEN NoneNum
    ELSE IF 0 <= p /\ p <= 10000 THEN p
    ELSE IF 10000 < p /\ p <= 1000000 THEN p \div 100
    ELSE p

_best_bid_ask_from_book(book) ==
    [ bid |-> _normalize_price_0_1(
                 IF book.best_bid = NoneNum /\ book.bids # << >>
                 THEN book.bids[1].price ELSE book.best_bid),
      ask |-> _normalize_price_0_1(
                 IF book.best_ask = NoneNum /\ book.asks # << >>
                 THEN book.asks[1].price ELSE book.best_ask) ]

\* mutant: a missing side or a crossed book is priced as zero, not as None
spreads_of_zero_filled(bid, ask) ==
    IF bid = NoneNum \/ ask = NoneNum \/ ask < bid
    THEN [ spread_abs |-> 0, mid |-> 0, bid |-> bid, ask |-> ask ]
    ELSE [ spread_abs |-> Max(0, ask - bid), mid |-> ask + bid, bid |-> bid, ask |-> ask ]

spreads_of(bid, ask) ==
    IF bid = NoneNum \/ ask = NoneNum \/ ask < bid
    THEN [ spread_abs |-> NoneNum, mid |-> NoneNum, bid |-> bid, ask |-> ask ]
    ELSE [ spread_abs |-> Max(0, ask - bid), mid |-> ask + bid, bid |-> bid, ask |-> ask ]

_compute_spreads(book) ==
    spreads_of(_best_bid_ask_from_book(book).bid, _best_bid_ask_from_book(book).ask)

\* indicators.calculate_atr on a series of closes: the mean of the last
\* period absolute changes (the first of the series counts 0) over the last
\* close, as << numerator, denominator >>; 0 when the series is short.
true_range(prices, i) ==
    IF i = 1 THEN 0 ELSE Abs(prices[i] - prices[i - 1])

calculate_atr(prices, period) ==
    IF Len(prices) < period \/ prices[Len(prices)] <= 0 THEN << 0, 1 >>
    ELSE << SumSeq([ k \in 1..period |-> true_range(prices, Len(prices) - period + k) ]),
            period * prices[Len(prices)] >>

\* bb_width = (upper - lower) / mid = 4 * std / mean over the last period
\* prices, 0 when the mean is not positive.  bb_width < max_bb_width / 1000
\* is decided on n^2 * variance and the sum of the prices:
\* 16000000 * n2var < max_bb_width^2 * total^2.
bb_width_below(n2var, total, max_bb_width) ==
    IF total <= 0 THEN TRUE
    ELSE n2var <= (max_bb_width * max_bb_width * total * total - 1) \div 16000000

bb_width_pass(prices, period, max_bb_width) ==
    bb_width_below(period * SumSeq([ k \in 1..period |-> LastN(prices, period)[k]
                                                         * LastN(prices, period)[k] ])
                     - SumSeq(LastN(prices, period)) * SumSeq(LastN(prices, period)),
                   SumSeq(LastN(prices, period)), max_bb_width)

RegimeCheckNames ==
    << "btc_volatility", "btc_trend", "price_zone", "spread_abs", "orderbook_balance" >>

\* The 'pass' entries of check_regime's five checks.
regime_checks(self, btc_prices, sp, bid_depth, ask_depth) ==
    [ btc_volatility    |-> IF Len(btc_prices) >= 15
                            THEN calculate_atr(btc_prices, 15)[1] * 1000
                                   < self.max_atr * calculate_atr(btc_prices, 15)[2]
                            ELSE TRUE,
      btc_trend         |-> IF Len(btc_prices) >= 20
                            THEN bb_width_pass(btc_prices, 20, self.max_bb_width)
                            ELSE TRUE,
      price_zone        |-> /\ sp.mid # NoneNum
                            /\ 2 * self.min_mid_price < sp.mid
                            /\ sp.mid < 2 * self.max_mid_price,
      spread_abs        |-> /\ sp.spread_abs # NoneNum
                            /\ sp.spread_abs < self.max_spread_abs,
      orderbook_balance |-> /\ bid_depth + ask_depth > 0
                            /\ self.min_balance * (bid_depth + ask_depth) < 100 * bid_depth
                            /\ 100 * bid_depth < self.max_balance * (bid_depth + ask_depth) ]

regime_result(checks, sp) ==
    [ regime_ok    |-> \A k \in 1..Len(RegimeCheckNames) : checks[RegimeCheckNames[k]],
      regime_score |-> (Cardinality({ k \in 1..Len(RegimeCheckNames) : checks[RegimeCheckNames[k]] }) * 100)
                          \div Len(RegimeCheckNames),
      checks       |-> checks,
      failed       |-> SelectSeq(RegimeCheckNames, LAMBDA c : ~checks[c]),
      no_valid_orderbook |-> FALSE,
      mid          |-> sp.mid,
      spread_abs   |-> sp.spread_abs ]

\* check_regime on a book dict; 'failed' is the list the reason is built from.
check_regime(self, btc_prices, orderbook) ==
    regime_result(regime_checks(self, btc_prices, _compute_spreads(orderbook),
                                orderbook.bid_depth, orderbook.ask_depth),
                  _compute_spreads(orderbook))

\* One candidate of _pick_tradable_outcome.
Candidate(token_id, label, book) ==
    [ token_id |-> token_id,
      label    |-> label,
      book     |-> book,
      mid      |-> IF book.fetched THEN _compute_spreads(book).mid ELSE NoneNum ]

\* abs(mid - target_mid), in 1/20000.
mid_distance(c) ==
    Abs(c.mid - 10000)

\* mutant: the first token of the market is taken whenever it has a mid
nearest_mid_first_listed(first, second, tie) ==
    IF first.mid # NoneNum THEN 1 ELSE 2

\* min(valid, key=|mid - 0.50|) over two candidates of which one at least
\* has a mid; tie is the candidate the float comparison favours when both
\* are as near in exact arithmetic (0.44 and 0.56).
nearest_mid(first, second, tie) ==
    IF second.mid = NoneNum THEN 1
    ELSE IF first.mid = NoneNum THEN 2
    ELSE IF mid_distance(first) < mid_distance(second) THEN 1
    ELSE IF mid_distance(second) < mid_distance(first) THEN 2
    ELSE tie

\* _pick_tradable_outcome: the index of the selected candidate, 0 for none.
_pick_tradable_outcome(candidates, tie) ==
    IF Len(candidates) < 2 THEN 0
    ELSE IF candidates[1].mid = NoneNum /\ candidates[2].mid = NoneNum THEN 1
    ELSE nearest_mid(candidates[1], candidates[2], tie)

market_candidates(market, books) ==
    [ i \in 1..Min(2, Len(market.token_ids)) |->
        Candidate(market.token_ids[i],
                  IF i <= Len(market.outcomes) THEN market.outcomes[i] ELSE "Outcome",
                  books[i]) ]

\* check_regime_market once the token is picked (0: none).
regime_of_selected(self, btc_prices, candidates, selected) ==
    IF selected = 0 \/ ~candidates[Max(selected, 1)].book.fetched
    THEN [ check_regime(self, btc_prices, Book(<< >>, << >>))
             EXCEPT !.no_valid_orderbook = TRUE ]
           @@ [ selected_token |-> [ token_id |-> None ], selected |-> 0 ]
    ELSE check_regime(self, btc_prices, candidates[selected].book)
           @@ [ selected_token |-> [ token_id |-> candidates[selected].token_id,
                                     label    |-> candidates[selected].label,
                                     mid      |-> candidates[selected].mid ],
                selected |-> selected ]

check_regime_market(self, btc_prices, market, books, tie) ==
    regime_of_selected(self, btc_prices, market_candidates(market, books),
                       _pick_tradable_outcome(market_candidates(market, books), tie))

(***************************************************************************)
(* SpecRegime: check_regime on the first token's book and                  *)
(* check_regime_market on the market, for books and BTC series drawn from  *)
(* bounded sets.                                                           *)
(***************************************************************************)
Level(price, size) ==
    [ price |-> price, size |-> size ]

\* sound; quoted in cents; the complement of the sound one; no asks;
\* crossed; wide; near 1; one-sided depth; empty.
RegimeBooks ==
    { NoBook,
      Book(<< Level(5400, 100) >>, << Level(5600, 100) >>),
      Book(<< Level(430000, 100) >>, << Level(450000, 100) >>),
      Book(<< Level(4400, 100) >>, << Level(4600, 100) >>),
      Book(<< Level(5400, 100) >>, << >>),
      Book(<< Level(5600, 100) >>, << Level(5400, 100) >>),
      Book(<< Level(4000, 100) >>, << Level(6000, 100) >>),
      Book(<< Level(9300, 100) >>, << Level(9500, 100) >>),
      Book(<< Level(5400, 900) >>, << Level(5600, 100) >>),
      Book(<< >>, << >>) }

BtcSeriesKinds == { "calm", "short", "choppy17", "choppy", "trend" }

BtcSeries(kind) ==
    CASE kind = "calm"     -> [ i \in 1..20 |-> 100 ]
      [] kind = "short"    -> [ i \in 1..10 |-> 100 ]
      [] kind = "choppy17" -> [ i \in 1..17 |-> IF i % 2 = 1 THEN 100 ELSE 104 ]
      [] kind = "choppy"   -> [ i \in 1..20 |-> IF i % 2 = 1 THEN 100 ELSE 104 ]
      [] kind = "trend"    -> [ i \in 1..20 |-> 99 + i ]

\* max_spread_abs as _scan_for_signals sets it for a CURRENT market, and
\* the default.
RegimeSpreads == { 1200, MAX_SPREAD_ABS }

RegimeMarkets ==
    { Markets[1], Market("mktC", << "C1" >>, << "Up" >>) }

InitRegime ==
    /\ IdleRisk
    /\ open_positions = << >>
    /\ sizer_bankroll = 0
    /\ detector = None
    /\ last_scan_time = NoneNum
    /\ last_exit_check_time = NoneNum
    /\ pc = "call"
    /\ now = 0
    /\ ret = [ op |-> "none" ]
    /\ \E k \in BtcSeriesKinds, b1 \in RegimeBooks, b2 \in RegimeBooks, tie \in 1..2,
          sp \in RegimeSpreads, m \in RegimeMarkets :
          arg = [ self |-> RegimeFilter(sp), btc_prices |-> BtcSeries(k), market |-> m,
                  books |-> << b1, b2 >>, tie |-> tie ]

Call_check_regime ==
    /\ pc = "call"
    /\ arg.books[1].fetched
    /\ ret' = [ op |-> "check_regime",
                result |-> check_regime(arg.self, arg.btc_prices, arg.books[1]) ]
    /\ pc' = "done"
    /\ UNCHANGED << risk_mgr, open_positions, sizer_bankroll, detector, last_scan_time,
                    last_exit_check_time, now, arg >>

Call_check_regime_market ==
    /\ pc = "call"
    /\ ret' = [ op |-> "check_regime_market",
                result |-> check_regime_market(arg.self, arg.btc_prices, arg.market,
                                               arg.books, arg.tie) ]
    /\ pc' = "done"
    /\ UNCHANGED << risk_mgr, open_positions, sizer_bankroll, detector, last_scan_time,
                    last_exit_check_time, now, arg >>

NextRegime ==
    \/ Call_check_regime
    \/ Call_check_regime_market

SpecRegime == InitRegime /\ [][NextRegime]_vars

(***************************************************************************)
(* Orchestrator (src/11_main.py).  A scan sees, for each market, a         *)
(* snapshot of what the services answer: how the regime check ends, which  *)
(* token's tape moved and how, and whether the detector or the signal log  *)
(* raises when it is reached.                                              *)
(***************************************************************************)
STARTING_BANKROLL == 25000
SCAN_INTERVAL_SECONDS == 30
EXIT_CHECK_INTERVAL_SECONDS == 10
SLEEP_SECONDS == 5

Feeds == { "quiet", "spike_up", "spike_down", "dump", "dark" }

FeedPath(feed) ==
    CASE feed = "spike_up"   -> << 50, 56 >>
      [] feed = "spike_down" -> << 50, 44 >>
      [] feed = "dump"       -> << 50, 44 >>
      [] OTHER               -> << 50, 50 >>

\* get_orderbook returns nothing for a dark token.
has_orderbook(feed) ==
    feed # "dark"

get_orderbook(feed) ==
    IF feed = "spike_up" THEN [ bid_depth |-> 900, ask_depth |-> 100 ]
    ELSE [ bid_depth |-> 500, ask_depth |-> 500 ]

\* What self.detector.detect returns on each feed (no outcome label is
\* passed); the tape is stamped relative to the time of the scan.
Detectors == { "time", "count" }

FeedSignal ==
    [ feed \in Feeds |->
        detect(OverreactionDetector(MOVE_WINDOW_MINUTES, MIN_PRICE_CHANGE,
                                    MIN_OVERREACTION_SCORE),
               FeedPath(feed)[2],
               MakePrices("jump", FeedPath(feed)[1], FeedPath(feed)[2]),
               MakeTape("calm", FeedPath(feed)[1], FeedPath(feed)[2],
                        IF feed = "spike_down" THEN 200 ELSE 20),
               get_orderbook(feed),
               IF feed = "spike_down" THEN -50 ELSE 0,
               None, DetectNow) ]

\* The same call when the count-based module is the one loaded.
FeedSignalCount ==
    [ feed \in Feeds |->
        detect_count(CountDetector(COUNT_MIN_PRICE_CHANGE, COUNT_MIN_OVERREACTION_SCORE),
                     FeedPath(feed)[2],
                     MakePrices("jump", FeedPath(feed)[1], FeedPath(feed)[2]),
                     MakeTape("calm", FeedPath(feed)[1], FeedPath(feed)[2],
                              IF feed = "spike_down" THEN 200 ELSE 20),
                     get_orderbook(feed),
                     IF feed = "spike_down" THEN -50 ELSE 0) ]

Regimes == { "ok", "filtered", "raises_old_ok", "raises_old_filtered" }

Faults == { "none", "detector", "logger" }

\* Snapshots, one per distinguishable course of a market's evaluation.
MarketSnapshots ==
    { s \in [ regime : Regimes, moved : 1..2, feed : Feeds, fault : Faults ] :
        /\ s.regime \in { "filtered", "raises_old_filtered" }
              => (s.feed = "quiet" /\ s.moved = 1 /\ s.fault # "detector")
        /\ s.feed = "dark" => (s.moved = 1 /\ s.fault = "none")
        /\ s.feed = "dump" => (s.fault = "none")
        /\ s.feed = "quiet" => (s.moved = 1) }

_resolve_signal_action(signal) ==
    IF signal.side \in { "BUY", "SELL" } THEN signal.side ELSE "BUY"

_signal_recommended_outcome(signal) ==
    IF signal.recommended_outcome # None /\ signal.recommended_outcome # ""
    THEN signal.recommended_outcome
    ELSE CASE signal.fade_direction = "FADE_UP"   -> "Down"
           [] signal.fade_direction = "FADE_DOWN" -> "Up"
           [] OTHER                               -> None

_pick_token_id_for_outcome(market, desired_label, fallback_token_id, fallback_label) ==
    IF desired_label = None \/ desired_label = "" THEN fallback_token_id
    ELSE
    LET desired == strip_lower(desired_label)
        matches == { i \in 1..Len(market.token_ids) :
                       strip_lower(market.outcomes[i]) = desired }
        fb      == strip_lower(fallback_label)
    IN  IF matches # {}
        THEN market.token_ids[CHOOSE i \in matches : \A j \in matches : i <= j]
        ELSE IF /\ Len(market.token_ids) >= 2
                /\ fallback_label # None
                /\ \/ (desired \in { "down", "no" } /\ fb \in { "up", "yes" })
                   \/ (desired \in { "up", "yes" } /\ fb \in { "down", "no" })
             THEN IF market.token_ids[1] = fallback_token_id
                  THEN market.token_ids[2] ELSE market.token_ids[1]
             ELSE fallback_token_id

\* _check_token_for_signal on token idx of the market, whose feed is feed
\* and on which detect returns sig: "none", "raised" (by the detector),
\* "journal_failed" (logger.log_signal raised), or "signal" with the
\* signal as _execute_signal reads it.
token_signal(market, idx, snap, regime_passed, feed, sig) ==
        IF ~has_orderbook(feed) THEN [ kind |-> "none" ]
        ELSE IF ~regime_passed /\ snap.regime # "raises_old_ok"
        THEN IF snap.fault = "logger" THEN [ kind |-> "journal_failed" ]
             ELSE [ kind |-> "none" ]
        ELSE IF snap.fault = "detector" THEN [ kind |-> "raised" ]
        ELSE IF ~sig.signal THEN [ kind |-> "none" ]
        ELSE [ kind   |-> "signal",
               signal |-> [ token_id            |-> market.token_ids[idx],
                            outcome             |-> market.outcomes[idx],
                            side                |-> IF "side" \in DOMAIN sig
                                                    THEN sig.side ELSE sig.action,
                            fade_direction      |-> IF "fade_direction" \in DOMAIN sig
                                                    THEN sig.fade_direction ELSE None,
                            recommended_outcome |-> IF "recommended_outcome" \in DOMAIN sig
                                                    THEN sig.recommended_outcome ELSE None,
                            confidence          |-> sig.confidence,
                            score               |-> sig.score,
                            expected_edge       |-> sig.expected_edge,
                            current_price       |-> sig.current_price,
                            regime_score        |-> 100,
                            orderbook           |-> get_orderbook(feed) ] ]

token_feed(idx, snap) ==
    IF idx = snap.moved THEN snap.feed ELSE "quiet"

_check_token_for_signal(market, idx, snap, regime_passed) ==
    token_signal(market, idx, snap, regime_passed, token_feed(idx, snap),
                 IF detector = "count" THEN FeedSignalCount[token_feed(idx, snap)]
                 ELSE FeedSignal[token_feed(idx, snap)])

\* _check_market_old_method: the first token, in list order, with a signal.
first_signal(first, second) ==
    IF first.kind # "none" THEN first ELSE second

_check_market_old_method(market, snap) ==
    first_signal(_check_token_for_signal(market, 1, snap, FALSE),
                 _check_token_for_signal(market, 2, snap, FALSE))

\* The components a scan or an exit pass changes.
BotState(rm, positions, bankroll) ==
    [ risk_mgr |-> rm, open_positions |-> positions, sizer_bankroll |-> bankroll ]

\* _execute_signal once sized and checked: record the position, log.  An
\* exception of logger.log_signal leaves through the caller; the last log
\* comes after the position has been recorded.
record_position(st, position, tradeable, allowed, logger_fails) ==
    IF ~tradeable
    THEN [ st |-> st, tag |-> IF logger_fails THEN "journal_failed" ELSE "not_tradeable" ]
    ELSE IF ~allowed
    THEN [ st |-> st, tag |-> IF logger_fails THEN "journal_failed" ELSE "blocked" ]
    ELSE [ st  |-> BotState(open_position(st.risk_mgr, position),
                            Append(st.open_positions, position),
                            st.sizer_bankroll),
           tag |-> IF logger_fails THEN "journal_failed" ELSE "opened" ]

execute_sized(st, signal, sizing, logger_fails, now_ts) ==
    record_position(st,
                    [ token_id    |-> signal.token_id,
                      side        |-> _resolve_signal_action(signal),
                      size        |-> sizing.final_size,
                      entry_price |-> signal.current_price,
                      entry_time  |-> now_ts ],
                    sizing.tradeable,
                    can_open_position(st.risk_mgr, sizing.final_size).allowed,
                    logger_fails)

\* _execute_signal: size, ask the risk manager, record the position, log.
_execute_signal(st, signal, logger_fails, now_ts) ==
    execute_sized(st, signal,
                  calculate_size(st.sizer_bankroll, signal.expected_edge,
                                 signal.confidence,
                                 signal.orderbook.bid_depth + signal.orderbook.ask_depth,
                                 signal.regime_score),
                  logger_fails, now_ts)

\* The signal with the token it is to be traded on.
retargeted(signal, market, desired, fallback_idx) ==
    [ signal EXCEPT
        !.token_id = _pick_token_id_for_outcome(market, desired,
                                                market.token_ids[fallback_idx],
                                                market.outcomes[fallback_idx]),
        !.outcome  = IF desired # None THEN desired ELSE @ ]

execute_found(st, r, market, snap, remap, now_ts) ==
    CASE r.kind \in { "raised", "journal_failed" } -> [ st |-> st, tag |-> r.kind ]
      [] r.kind = "none"   -> [ st |-> st, tag |-> "no_signal" ]
      [] OTHER ->
           _execute_signal(st,
                           IF remap
                           THEN retargeted(r.signal, market,
                                           _signal_recommended_outcome(r.signal),
                                           snap.moved)
                           ELSE r.signal,
                           snap.fault = "logger", now_ts)

\* One iteration of the loop over tradeable_markets in _scan_for_signals.
evaluate_market(st, market, snap, now_ts) ==
    IF snap.regime \in { "raises_old_ok", "raises_old_filtered" }
    THEN execute_found(st, _check_market_old_method(market, snap), market, snap,
                       FALSE, now_ts)
    ELSE IF snap.regime = "filtered"
    THEN [ st |-> st, tag |-> IF snap.fault = "logger" THEN "journal_failed" ELSE "filtered" ]
    ELSE execute_found(st, _check_token_for_signal(market, snap.moved, snap, TRUE),
                       market, snap, TRUE, now_ts)

\* The loop of _scan_for_signals: markets in order, until one raises.
RECURSIVE scan_markets(_, _, _, _, _)
scan_next(r, markets, snaps, now_ts, tags) ==
    IF r.tag \in { "raised", "journal_failed" }
    THEN [ st |-> r.st, tags |-> Append(tags, r.tag), raised |-> TRUE ]
    ELSE scan_markets(r.st, markets, snaps, now_ts, Append(tags, r.tag))

scan_markets(st, markets, snaps, now_ts, tags) ==
    IF Len(tags) + 1 > Len(markets) THEN [ st |-> st, tags |-> tags, raised |-> FALSE ]
    ELSE scan_next(evaluate_market(st, markets[Len(tags) + 1], snaps[Len(tags) + 1],
                                   now_ts),
                   markets, snaps, now_ts, tags)

_scan_for_signals(st, markets, snaps, now_ts) ==
    scan_markets(st, markets, snaps, now_ts, << >>)

\* _close_position: drop every position of the token from both lists, book
\* the pnl, pass the new bankroll to the sizer.
\* mutant: the sizer is not told the new bankroll
closed_state_stale_sizer(st, token_id, rm) ==
    BotState(rm,
             SelectSeq(st.open_positions, LAMBDA p : p.token_id # token_id),
             st.sizer_bankroll)

closed_state(st, token_id, rm) ==
    BotState(rm,
             SelectSeq(st.open_positions, LAMBDA p : p.token_id # token_id),
             update_bankroll(rm.current_bankroll))

_close_position(st, position, exit_check) ==
    closed_state(st, position.token_id,
                 close_position(st.risk_mgr, position.token_id, exit_check.pnl))

\* The second loop of _check_exits.  logger.log_trade and
\* update_daily_performance write the workbook after the position has been
\* closed; an exception there leaves through the caller.
RECURSIVE close_all(_, _, _, _)
close_next(st, positions, quotes, deciding, decision) ==
    IF ~decision.should_exit
    THEN close_all(st, Tail(positions), Tail(quotes), deciding)
    ELSE IF deciding.logger_fails
    THEN [ st |-> _close_position(st, Head(positions), decision), raised |-> TRUE ]
    ELSE close_all(_close_position(st, Head(positions), decision),
                   Tail(positions), Tail(quotes), deciding)

close_all(st, positions, quotes, deciding) ==
    IF positions = << >> THEN [ st |-> st, raised |-> FALSE ]
    ELSE close_next(st, positions, quotes, deciding,
                    IF Head(quotes) = NoneNum THEN [ should_exit |-> FALSE ]
                    ELSE check_exit(Head(positions), Head(quotes), deciding.now_ts,
                                    deciding.btc_atr))

\* _check_exits: every position of the list as it stands at the start is
\* priced and checked; those to exit are then closed in list order.
_check_exits(st, quotes, btc_atr, logger_fails, now_ts) ==
    close_all(st, st.open_positions, quotes,
              [ now_ts |-> now_ts, btc_atr |-> btc_atr, logger_fails |-> logger_fails ])

(***************************************************************************)
(* SpecBot: the main loop of PolymarketTradingBot.run, one cycle after     *)
(* the other: exits when due, scan when due, status and sleep; an          *)
(* exception or an interrupt ends in _shutdown.                            *)
(***************************************************************************)
MaxTime == 30

BotBankrolls == { STARTING_BANKROLL, 100000 }

\* get_current_price for a position: nothing, a low, the entry or a high price.
QuoteKinds == { "none", "low", "same", "high" }

Quote(kind, position) ==
    CASE kind = "none" -> NoneNum
      [] kind = "low"  -> 40
      [] kind = "same" -> position.entry_price
      [] kind = "high" -> 60

BotAtrs == { NoneNum, 40 }

InitBot ==
    /\ \E b \in BotBankrolls :
          /\ risk_mgr = RiskManager(b, MAX_CONSECUTIVE_LOSSES, MIN_TRADES_FOR_WIN_RATE)
          /\ sizer_bankroll = b
    /\ detector \in Detectors
    /\ open_positions = << >>
    /\ last_scan_time = NoneNum
    /\ last_exit_check_time = NoneNum
    /\ pc = "exits"
    /\ now = 0
    /\ arg = None
    /\ ret = [ op |-> "__init__" ]

\* mutant: the exit pass waits for more than the interval
ExitCheckDue_after_interval ==
    last_exit_check_time = NoneNum \/ now - last_exit_check_time > EXIT_CHECK_INTERVAL_SECONDS

ExitCheckDue ==
    last_exit_check_time = NoneNum \/ now - last_exit_check_time >= EXIT_CHECK_INTERVAL_SECONDS

ScanDue ==
    last_scan_time = NoneNum \/ now - last_scan_time >= SCAN_INTERVAL_SECONDS

\* The bot after _check_exits returned r, or raised.
ExitsDone(r) ==
    /\ risk_mgr' = r.st.risk_mgr
    /\ open_positions' = r.st.open_positions
    /\ sizer_bankroll' = r.st.sizer_bankroll
    /\ arg' = [ positions |-> open_positions ]
    /\ ret' = [ op |-> "_check_exits", raised |-> r.raised ]
    /\ pc' = IF r.raised THEN "shutdown" ELSE "scan"
    /\ last_exit_check_time' = IF r.raised THEN last_exit_check_time ELSE now

CheckExits ==
    /\ pc = "exits"
    /\ ExitCheckDue
    /\ \E kinds \in [ 1..Len(open_positions) -> QuoteKinds ],
          btc_atr \in BotAtrs, logger_fails \in BOOLEAN :
          /\ open_positions = << >> => (btc_atr = NoneNum /\ ~logger_fails)
          /\ ExitsDone(_check_exits(BotState(risk_mgr, open_positions, sizer_bankroll),
                                    [ i \in 1..Len(open_positions) |->
                                        Quote(kinds[i], open_positions[i]) ],
                                    btc_atr, logger_fails, now))
    /\ UNCHANGED << detector, last_scan_time, now >>

SkipExits ==
    /\ pc = "exits"
    /\ ~ExitCheckDue
    /\ pc' = "scan"
    /\ UNCHANGED << risk_mgr, open_positions, sizer_bankroll, detector, last_scan_time,
                    last_exit_check_time, now, arg, ret >>

\* The bot after _scan_for_signals over markets returned r, or raised.
ScanDone(markets, r) ==
    /\ risk_mgr' = r.st.risk_mgr
    /\ open_positions' = r.st.open_positions
    /\ sizer_bankroll' = r.st.sizer_bankroll
    /\ arg' = [ markets |-> markets ]
    /\ ret' = [ op |-> "_scan_for_signals", tags |-> r.tags, raised |-> r.raised ]
    /\ pc' = IF r.raised THEN "shutdown" ELSE "sleep"
    /\ last_scan_time' = IF r.raised THEN last_scan_time ELSE now

ScanForSignals ==
    /\ pc = "scan"
    /\ ScanDue
    /\ \E n \in 0..Len(Markets) :
          \E snaps \in [ 1..n -> MarketSnapshots ] :
             ScanDone(SubSeq(Markets, 1, n),
                      _scan_for_signals(BotState(risk_mgr, open_positions, sizer_bankroll),
                                        SubSeq(Markets, 1, n), snaps, now))
    /\ UNCHANGED << detector, last_exit_check_time, now >>

SkipScan ==
    /\ pc = "scan"
    /\ ~ScanDue
    /\ pc' = "sleep"
    /\ UNCHANGED << risk_mgr, open_positions, sizer_bankroll, detector, last_scan_time,
                    last_exit_check_time, now, arg, ret >>

\* _print_status, then time.sleep(5).
Sleep ==
    /\ pc = "sleep"
    /\ now + SLEEP_SECONDS <= MaxTime
    /\ now' = now + SLEEP_SECONDS
    /\ pc' = "exits"
    /\ UNCHANGED << risk_mgr, open_positions, sizer_bankroll, detector, last_scan_time,
                    last_exit_check_time, arg, ret >>

\* The loop spends its time in time.sleep; the interrupt arrives there.
KeyboardInterrupt ==
    /\ pc = "sleep"
    /\ pc' = "shutdown"
    /\ ret' = [ op |-> "KeyboardInterrupt" ]
    /\ UNCHANGED << risk_mgr, open_positions, sizer_bankroll, detector, last_scan_time,
                    last_exit_check_time, now, arg >>

_shutdown ==
    /\ pc = "shutdown"
    /\ pc' = "stopped"
    /\ UNCHANGED << risk_mgr, open_positions, sizer_bankroll, detector, last_scan_time,
                    last_exit_check_time, now, arg, ret >>

NextBot ==
    \/ CheckExits
    \/ SkipExits
    \/ ScanForSignals
    \/ SkipScan
    \/ Sleep
    \/ KeyboardInterrupt
    \/ _shutdown

SpecBot == InitBot /\ [][NextBot]_vars

\* C16: reset_daily sets today_pnl to 0, trading_paused to false,
\* pause_reason to None and today_start_bankroll to current_bankroll, and
\* leaves consecutive_losses, trade_history, current_bankroll, the open
\* positions and the configuration as they were.
C16_ResetDailyFrame ==
    [][ ret'.op = "reset_daily"
          => /\ risk_mgr'.today_pnl = 0
             /\ ~risk_mgr'.trading_paused
             /\ risk_mgr'.pause_reason = None
             /\ risk_mgr'.today_start_bankroll = risk_mgr.current_bankroll
             /\ [ risk_mgr' EXCEPT
                    !.today_pnl = risk_mgr.today_pnl,
                    !.trading_paused = risk_mgr.trading_paused,
                    !.pause_reason = risk_mgr.pause_reason,
                    !.today_start_bankroll = risk_mgr.today_start_bankroll ] = risk_mgr ]_vars

\* A reset after the losing streak paused trading with a position open:
\* the streak, the history, the bankroll and the position are still there.
C16_Witness ==
    /\ ret.op = "reset_daily"
    /\ risk_mgr.consecutive_losses >= risk_mgr.max_consecutive_losses
    /\ Len(risk_mgr.trade_history) >= risk_mgr.max_consecutive_losses
    /\ risk_mgr.open_positions # << >>
    /\ risk_mgr.current_bankroll # risk_mgr.starting_bankroll
    /\ risk_mgr.today_start_bankroll = risk_mgr.current_bankroll
    /\ ~risk_mgr.trading_paused

\* The checks of can_open_position that fail in the current state, each
\* under the name of its message, in the order the method tests them.
FailingChecks ==
    SelectSeq(CheckNames,
              LAMBDA c :
                  CASE c = "daily_loss"           -> ~daily_loss_pass(risk_mgr)
                    [] c = "concurrent_positions" -> ~concurrent_positions_pass(risk_mgr)
                    [] c = "consecutive_losses"   -> ~consecutive_losses_pass(risk_mgr)
                    [] c = "win_rate"             -> ~win_rate_pass(risk_mgr)
                    [] c = "position_size"
                         -> ~position_size_pass(risk_mgr, ret.position_size))

\* the reason returned carries the message of check c; the pause message
\* quotes pause_reason, the message of the breaker that tripped
ReasonNames(c) ==
    \/ \E i \in 1..Len(ret.reason) : ret.reason[i] = c
    \/ /\ risk_mgr.trading_paused
       /\ \/ c = "daily_loss" /\ risk_mgr.pause_reason = "Daily loss limit hit"
          \/ c = "consecutive_losses" /\ risk_mgr.pause_reason = "consecutive losses"
          \/ c = "win_rate" /\ risk_mgr.pause_reason = "Win rate too low"

\* C23 as stated: whenever can_open_position returns allowed = false, its
\* reason contains the message of every check that fails in the current
\* state (pause flag, daily loss, concurrency, consecutive losses, win rate,
\* position size), not only the first failing one.
C23_ReasonNamesEveryFailingCheck ==
    (ret.op = "can_open_position" /\ ~ret.allowed) =>
        /\ risk_mgr.trading_paused => ReasonNames("Trading paused")
        /\ \A i \in 1..Len(FailingChecks) : ReasonNames(FailingChecks[i])

\* C23 amended: while trading is not paused, the reason of a refusal is the
\* messages of all failing checks, in order; while trading is paused the
\* call is refused with the pause message alone and no check is evaluated.
C23_ReasonNamesEveryFailingCheckUnlessPaused ==
    ret.op = "can_open_position" =>
        IF risk_mgr.trading_paused
        THEN /\ ~ret.allowed
             /\ ret.reason = << "Trading paused" >>
        ELSE /\ ret.allowed <=> FailingChecks = << >>
             /\ ~ret.allowed => ret.reason = FailingChecks

\* C23 witness: a call refused, without a pause, by two checks at once, both
\* named in the reason.
C23_Witness ==
    /\ ret.op = "can_open_position"
    /\ ~risk_mgr.trading_paused
    /\ ~ret.allowed
    /\ Len(FailingChecks) >= 2
    /\ ret.reason = FailingChecks

\* C17: close_position(token_id, pnl) removes the token's position from the
\* open positions, adds pnl to today_pnl and to current_bankroll, appends
\* pnl > 0 to trade_history and sets consecutive_losses to 0 on a win, one
\* more otherwise.
C17_ClosePositionBooksPnl ==
    [][ ret'.op = "close_position"
          => /\ risk_mgr'.open_positions
                  = SelectSeq(risk_mgr.open_positions,
                              LAMBDA p : p.token_id # ret'.token_id)
             /\ \A i \in 1..Len(risk_mgr'.open_positions) :
                    risk_mgr'.open_positions[i].token_id # ret'.token_id
             /\ risk_mgr'.today_pnl = risk_mgr.today_pnl + ret'.pnl
             /\ risk_mgr'.current_bankroll = risk_mgr.current_bankroll + ret'.pnl
             /\ risk_mgr'.trade_history = Append(risk_mgr.trade_history, ret'.pnl > 0)
             /\ risk_mgr'.consecutive_losses
                  = IF ret'.pnl > 0 THEN 0 ELSE risk_mgr.consecutive_losses + 1 ]_vars

\* The test runner's case: from $1000, three positions closed with +5, -3
\* and +4 leave today_pnl = 6, consecutive_losses = 0 and $1006.
C17_Witness ==
    /\ ret.op = "close_position"
    /\ ret.pnl = 400
    /\ risk_mgr.starting_bankroll = 100000
    /\ risk_mgr.trade_history = << TRUE, FALSE, TRUE >>
    /\ risk_mgr.open_positions = << >>
    /\ risk_mgr.today_pnl = 600
    /\ risk_mgr.consecutive_losses = 0
    /\ risk_mgr.current_bankroll = 100600

(***************************************************************************)
(* Claims about the orchestrator, checked under SpecBot.                   *)
(***************************************************************************)
ScanReturned ==
    pc \in { "sleep", "shutdown", "stopped" } /\ ret.op = "_scan_for_signals"

\* C3: after any sequence of scan passes and exit passes, no two positions of
\* the orchestrator's open_positions have the same token_id.
C3_OnePositionPerToken ==
    \A i, j \in 1..Len(open_positions) :
        i # j => open_positions[i].token_id # open_positions[j].token_id

\* C4: after any sequence of scan passes and exit passes, neither the
\* orchestrator's open_positions nor RiskManager.open_positions holds more
\* than max_concurrent positions.
C4_OpenCountWithinMaxConcurrent ==
    /\ Len(open_positions) <= risk_mgr.max_concurrent
    /\ Len(risk_mgr.open_positions) <= risk_mgr.max_concurrent

\* A scan has just opened the position that fills the limit, and has had a
\* further signal blocked by can_open_position's check 3.
C4_Witness ==
    /\ ScanReturned
    /\ ret.tags = << "opened", "blocked" >>
    /\ Len(open_positions) = risk_mgr.max_concurrent
    /\ Len(risk_mgr.open_positions) = risk_mgr.max_concurrent
    /\ ~concurrent_positions_pass(risk_mgr)
    /\ daily_loss_pass(risk_mgr)
    /\ ~risk_mgr.trading_paused

\* C6: a scan in which the evaluation of a market raised still evaluates
\* every market of the scan, and the main loop goes on to its next cycle:
\* no scan ends by an exception that leaves _scan_for_signals.
C6_ScanSurvivesMarketException ==
    ret.op = "_scan_for_signals"
        => /\ ~ret.raised
           /\ Len(ret.tags) = Len(arg.markets)
           /\ pc \notin { "shutdown", "stopped" }

\* C11: every position in the orchestrator's open_positions and in
\* RiskManager.open_positions has side BUY, whichever detector emitted the
\* signal.
C11_OnlyBuyPositions ==
    /\ \A i \in 1..Len(open_positions) : open_positions[i].side = "BUY"
    /\ \A i \in 1..Len(risk_mgr.open_positions) : risk_mgr.open_positions[i].side = "BUY"

(***************************************************************************)
(* Claims about the position sizer, checked under SpecSize.                *)
(***************************************************************************)
\* The size before the caps, and the two caps that depend on the inputs.
SizeAdjusted ==
    regime_adjusted(kelly_size(sizer_bankroll, arg.edge, arg.confidence), arg.regime_score)

SizeBankrollCap ==
    MulDiv(sizer_bankroll, MAX_POSITION_PCT, 100)

SizeDepthCap(i) ==
    arg.market_depths[i] * MAX_MARKET_DEPTH_PCT

\* C12: a tradeable result has min_trade_size <= final_size <= each of the
\* three caps; caps_applied lists, in the order bankroll, depth, absolute
\* maximum, exactly the caps that lowered the size; a capped size below
\* min_trade_size gives tradeable = false and final_size = 0.
C12_SizeWithinCaps ==
    \A i \in 1..Len(ret.results) :
        LET r      == ret.results[i]
            after1 == Min(SizeAdjusted, SizeBankrollCap)
            after2 == Min(after1, SizeDepthCap(i))
            after3 == Min(after2, MAX_TRADE_SIZE)
        IN  /\ r.tradeable
               => /\ MIN_TRADE_SIZE <= r.final_size
                  /\ r.final_size <= SizeBankrollCap
                  /\ r.final_size <= SizeDepthCap(i)
                  /\ r.final_size <= MAX_TRADE_SIZE
            /\ r.caps_applied
                 = SelectSeq(<< "bankroll", "depth", "max_trade" >>,
                             LAMBDA c : \/ c = "bankroll" /\ SizeAdjusted > SizeBankrollCap
                                        \/ c = "depth" /\ after1 > SizeDepthCap(i)
                                        \/ c = "max_trade" /\ after2 > MAX_TRADE_SIZE)
            /\ r.tradeable <=> after3 >= MIN_TRADE_SIZE
            /\ ~r.tradeable => r.final_size = 0

\* A tradeable size lowered by the bankroll cap and then by the depth cap.
C12_Witness ==
    /\ pc = "done"
    /\ ret.results[1].tradeable
    /\ ret.results[1].caps_applied = << "bankroll", "depth" >>
    /\ ~ret.results[2].tradeable
    /\ ret.results[2].caps_applied = << "bankroll", "depth" >>

\* The two depths calculate_size was called with, and the sizes it returned.
SizeCompared ==
    pc = "done" /\ Len(ret.results) = 2

\* C13 as stated: final_size never decreases when market_depth increases,
\* and a depth below final_size / max_depth_pct gives a strictly smaller
\* final_size equal to market_depth * max_depth_pct.
C13_DepthProportional ==
    SizeCompared
        => /\ arg.market_depths[1] <= arg.market_depths[2]
                => ret.results[1].final_size <= ret.results[2].final_size
           /\ SizeDepthCap(1) < ret.results[2].final_size
                => /\ ret.results[1].final_size < ret.results[2].final_size
                   /\ ret.results[1].final_size = SizeDepthCap(1)

\* C13: final_size never decreases when market_depth increases, and a depth
\* below final_size / max_depth_pct gives a strictly smaller final_size:
\* market_depth * max_depth_pct when that reaches min_trade_size, otherwise
\* 0 with tradeable = false.
C13_DepthMonotone ==
    SizeCompared
        => /\ arg.market_depths[1] <= arg.market_depths[2]
                => ret.results[1].final_size <= ret.results[2].final_size
           /\ SizeDepthCap(1) < ret.results[2].final_size
                => /\ ret.results[1].final_size < ret.results[2].final_size
                   /\ SizeDepthCap(1) >= MIN_TRADE_SIZE
                        => ret.results[1].final_size = SizeDepthCap(1)
                   /\ SizeDepthCap(1) < MIN_TRADE_SIZE
                        => /\ ret.results[1].final_size = 0
                           /\ ~ret.results[1].tradeable

\* The thin market of the test runner: depth 300 after depth 5000.
C13_Witness ==
    /\ SizeCompared
    /\ arg.market_depths = << 300, 5000 >>
    /\ ret.results[2].final_size = 1875
    /\ ret.results[1].final_size = 1500
    /\ ret.results[1].caps_applied = << "depth" >>

(***************************************************************************)
(* Claims about the regime filter, checked under SpecRegime.               *)
(***************************************************************************)
\* The book has no best bid, no best ask, or its best ask is below its best bid.
BadBook(book) ==
    \/ book.bids = << >>
    \/ book.asks = << >>
    \/ _normalize_price_0_1(book.asks[1].price) < _normalize_price_0_1(book.bids[1].price)

PassedChecks(result) ==
    { c \in DOMAIN result.checks : result.checks[c] }

\* C14: check_regime returns regime_ok only if all five checks pass; on a
\* book with a missing best bid or ask, or a best ask below the best bid,
\* mid and spread are undefined, the price-zone and spread checks fail and
\* regime_ok is false; regime_score is the number of passed checks over 5.
C14_RegimeFailsClosed ==
    ret.op = "check_regime"
        => /\ Cardinality(DOMAIN ret.result.checks) = 5
           /\ ret.result.regime_ok => PassedChecks(ret.result) = DOMAIN ret.result.checks
           /\ BadBook(arg.books[1])
                => /\ ret.result.mid = NoneNum
                   /\ ret.result.spread_abs = NoneNum
                   /\ ~ret.result.checks.price_zone
                   /\ ~ret.result.checks.spread_abs
                   /\ ~ret.result.regime_ok
           /\ 5 * ret.result.regime_score = 100 * Cardinality(PassedChecks(ret.result))

\* A crossed book on a calm underlying: three of five checks pass.
C14_Witness ==
    /\ ret.op = "check_regime"
    /\ arg.books[1].bids # << >>
    /\ arg.books[1].asks # << >>
    /\ BadBook(arg.books[1])
    /\ ret.result.regime_score = 60
    /\ ~ret.result.regime_ok

\* The mid of the book given for token i, NoneNum when there is none.
BookMid(i) ==
    IF arg.books[i].fetched THEN _compute_spreads(arg.books[i]).mid ELSE NoneNum

MarketRegimeReturned ==
    ret.op = "check_regime_market" /\ Len(arg.market.token_ids) = 2

\* C15: check_regime_market runs the price-zone, spread and balance checks
\* on the token whose mid is nearest 0.50; a token without a book is never
\* selected while the other token has a mid; with no book for either token
\* the result is regime_ok = false, names 'No valid orderbook' and has no
\* selected token.
C15_NearestMidSelected ==
    MarketRegimeReturned
        => /\ \A i \in 1..2 :
                (BookMid(i) # NoneNum /\ BookMid(3 - i) # NoneNum
                   /\ Abs(BookMid(i) - 10000) < Abs(BookMid(3 - i) - 10000))
                    => /\ ret.result.selected_token.token_id = arg.market.token_ids[i]
                       /\ ret.result.checks
                            = check_regime(arg.self, arg.btc_prices, arg.books[i]).checks
           /\ \A i \in 1..2 :
                (~arg.books[i].fetched /\ BookMid(3 - i) # NoneNum)
                    => /\ ret.result.selected_token.token_id = arg.market.token_ids[3 - i]
                       /\ ret.result.checks
                            = check_regime(arg.self, arg.btc_prices, arg.books[3 - i]).checks
           /\ (~arg.books[1].fetched /\ ~arg.books[2].fetched)
                    => /\ ~ret.result.regime_ok
                       /\ ret.result.no_valid_orderbook
                       /\ ret.result.selected_token.token_id = None

\* The second token is the nearer one (0.44 against 0.94) and is selected.
C15_Witness ==
    /\ MarketRegimeReturned
    /\ BookMid(1) = 18800
    /\ BookMid(2) = 8800
    /\ ret.result.selected_token.token_id = arg.market.token_ids[2]
    /\ ret.result.regime_ok

(***************************************************************************)
(* Claims about the orchestrator's loop, checked under SpecBot.             *)
(***************************************************************************)
\* the pass has never run, or interval seconds have passed since it last ran
PassDue(last_run, interval) ==
    last_run = NoneNum \/ now - last_run >= interval

\* C19: in every cycle the exit-check pass, when due, completes before the
\* signal-scan pass, when due, starts, and the status print and the sleep
\* follow; the exit pass is due iff it never ran or at least
\* EXIT_CHECK_INTERVAL_SECONDS have passed since its own last-run timestamp,
\* the scan pass likewise with SCAN_INTERVAL_SECONDS, and a pass never
\* changes the other pass's last-run timestamp.
C19_ExitsThenScanThenSleep ==
    [][ /\ pc = "exits" =>
              /\ pc' \in { "scan", "shutdown" }
              /\ last_scan_time' = last_scan_time
              /\ PassDue(last_exit_check_time, EXIT_CHECK_INTERVAL_SECONDS)
                    <=> \/ pc' = "scan" /\ last_exit_check_time' = now
                                       /\ last_exit_check_time # now
                        \/ pc' = "shutdown" /\ ret'.op = "_check_exits"
              /\ ~PassDue(last_exit_check_time, EXIT_CHECK_INTERVAL_SECONDS)
                    => UNCHANGED << risk_mgr, open_positions, last_exit_check_time >>
        /\ pc = "scan" =>
              /\ pc' \in { "sleep", "shutdown" }
              /\ last_exit_check_time' = last_exit_check_time
              /\ PassDue(last_scan_time, SCAN_INTERVAL_SECONDS)
                    <=> \/ pc' = "sleep" /\ last_scan_time' = now
                                        /\ last_scan_time # now
                        \/ pc' = "shutdown" /\ ret'.op = "_scan_for_signals"
              /\ ~PassDue(last_scan_time, SCAN_INTERVAL_SECONDS)
                    => UNCHANGED << risk_mgr, open_positions, last_scan_time >>
        /\ pc = "sleep" =>
              /\ pc' \in { "exits", "shutdown" }
              /\ UNCHANGED << risk_mgr, open_positions, last_scan_time,
                              last_exit_check_time >>
              /\ pc' = "exits" => now' = now + SLEEP_SECONDS ]_vars

\* C19 witness: the third exit pass has run exactly one interval after the
\* second while the scan, last run at the start, was skipped: the two
\* timestamps moved apart.
C19_Witness ==
    /\ pc = "sleep"
    /\ now = 2 * EXIT_CHECK_INTERVAL_SECONDS
    /\ last_exit_check_time = now
    /\ last_scan_time = 0

\* a scan in which a write of the trade journal failed
ScanJournalFailed ==
    /\ ret.op = "_scan_for_signals"
    /\ \E i \in 1..Len(ret.tags) : ret.tags[i] = "journal_failed"

\* C20: a failing trade journal never stops the orchestrator: when
\* log_signal, log_trade or update_daily_performance fails, the scan or the
\* exit pass in progress and the main loop continue.  (In an exit pass only
\* the journal's writes can raise.)
C20_JournalFailureContained ==
    /\ ScanJournalFailed
          => /\ ~ret.raised
             /\ Len(ret.tags) = Len(arg.markets)
             /\ pc \notin { "shutdown", "stopped" }
    /\ ret.op = "_check_exits"
          => /\ ~ret.raised
             /\ pc \notin { "shutdown", "stopped" }

\* C21: in the orchestrator the position sizer's bankroll equals
\* RiskManager.current_bankroll at every sizing call: both start at the
\* starting bankroll, and every close that realises pnl is followed, before
\* any later sizing, by update_bankroll with the risk manager's new bankroll.
C21_SizerFollowsRiskBankroll ==
    sizer_bankroll = risk_mgr.current_bankroll

\* C21 witness: a scan has sized and opened a position after earlier closes
\* moved the bankroll away from the starting bankroll.
C21_Witness ==
    /\ ScanReturned
    /\ \E i \in 1..Len(ret.tags) : ret.tags[i] = "opened"
    /\ risk_mgr.trade_history # << >>
    /\ risk_mgr.current_bankroll # risk_mgr.starting_bankroll
    /\ sizer_bankroll = risk_mgr.current_bankroll

(***************************************************************************)
(* Market discovery (src/04_polymarket_client.py).  A market of the Gamma  *)
(* API is [id, question, slug, end]: question and slug are given by the    *)
(* set of markers their lower-cased text contains ("^btc": the slug starts *)
(* with btc), end is the end time in minutes, NoneNum when no end date     *)
(* field is present.                                                       *)
(***************************************************************************)
looks_15m(q, s) ==
    \/ q \cap { "15 minute", "15-minute", "15 min", "15m" } # {}
    \/ s \cap { "15m", "15min", "15-min" } # {}

is_updown(q, s) ==
    \/ "up or down" \in q
    \/ s \cap { "updown", "up-or-down", "up or down" } # {}

is_btc(q, s) == "bitcoin" \in q \/ "^btc" \in s \/ " btc" \in q

is_eth(q, s) == "ethereum" \in q \/ "^eth" \in s \/ " eth" \in q

\* the tests a candidate passes before the up/down test
asset_and_cadence(m, include_eth) ==
    /\ is_btc(m.question, m.slug) \/ (include_eth /\ is_eth(m.question, m.slug))
    /\ looks_15m(m.question, m.slug)

\* the list returned, given the two lists the loop has built
discovered(results, relaxed_results, print_markets) ==
    IF print_markets /\ results = << >> /\ relaxed_results # << >>
    THEN relaxed_results ELSE results

get_active_btc_eth_15m_updown_markets(candidates, include_eth, print_markets, now_min) ==
    discovered(SelectSeq(candidates,
                         LAMBDA m : /\ asset_and_cadence(m, include_eth)
                                    /\ is_updown(m.question, m.slug)
                                    /\ ~(m.end # NoneNum /\ m.end <= now_min)),
               SelectSeq(candidates,
                         LAMBDA m : /\ asset_and_cadence(m, include_eth)
                                    /\ ~is_updown(m.question, m.slug)),
               print_markets)

(***************************************************************************)
(* SpecDiscover: one call of get_active_btc_eth_15m_updown_markets on the  *)
(* candidates the Gamma query returned.                                    *)
(***************************************************************************)
MaxCandidates == 2
DiscoverNow == 100

\* question and slug markers of the kinds of market the query can return
MarketTexts ==
    { [ id |-> "btc_updown_15m", question |-> { "bitcoin", "up or down" },
        slug |-> { "^btc", "updown", "15m" } ],
      [ id |-> "btc_15m", question |-> { "bitcoin", "15 minute" },
        slug |-> { "^btc", "15m" } ],
      [ id |-> "eth_updown_15m", question |-> { "ethereum", "up or down" },
        slug |-> { "^eth", "updown", "15m" } ],
      [ id |-> "sol_updown_15m", question |-> { "solana", "up or down" },
        slug |-> { "updown", "15m" } ],
      [ id |-> "btc_updown_hourly", question |-> { "bitcoin", "up or down" },
        slug |-> { "^btc", "updown" } ] }

MarketEnds == { NoneNum, DiscoverNow - 10, DiscoverNow, DiscoverNow + 15 }

GammaMarkets ==
    { [ id |-> t.id, question |-> t.question, slug |-> t.slug, end |-> e ] :
        t \in MarketTexts, e \in MarketEnds }

InitDiscover ==
    /\ IdleRisk
    /\ open_positions = << >>
    /\ sizer_bankroll = 0
    /\ detector = None
    /\ last_scan_time = NoneNum
    /\ last_exit_check_time = NoneNum
    /\ pc = "call"
    /\ ret = [ op |-> "none" ]
    /\ now = DiscoverNow
    /\ \E n \in 0..MaxCandidates :
          \E candidates \in [ 1..n -> GammaMarkets ],
             include_eth \in BOOLEAN, print_markets \in BOOLEAN :
             arg = [ candidates    |-> candidates,
                     include_eth   |-> include_eth,
                     print_markets |-> print_markets ]

Call_get_active_markets ==
    /\ pc = "call"
    /\ ret' = [ op |-> "get_active_btc_eth_15m_updown_markets",
                result |-> get_active_btc_eth_15m_updown_markets(
                               arg.candidates, arg.include_eth,
                               arg.print_markets, now) ]
    /\ pc' = "done"
    /\ UNCHANGED << risk_mgr, open_positions, sizer_bankroll, detector, last_scan_time,
                    last_exit_check_time, now, arg >>

NextDiscover == Call_get_active_markets

SpecDiscover == InitDiscover /\ [][NextDiscover]_vars

\* The candidates with an asset tag and the 15-minute marker: those that
\* also carry the up/down marker and have not ended, and those without it.
StrictMatches ==
    SelectSeq(arg.candidates,
              LAMBDA m : /\ asset_and_cadence(m, arg.include_eth)
                         /\ is_updown(m.question, m.slug)
                         /\ (m.end = NoneNum \/ m.end > now))

RelaxedMatches ==
    SelectSeq(arg.candidates,
              LAMBDA m : /\ asset_and_cadence(m, arg.include_eth)
                         /\ ~is_updown(m.question, m.slug))

\* C24: market discovery returns the relaxed matches (asset tag plus
\* 15-minute marker, without the up/down marker) whenever the strict up/down
\* filter yields no market and at least one relaxed match exists, whatever
\* print_markets flag the caller passes.
C24_RelaxedFallbackWhenNoStrictMatch ==
    ( /\ ret.op = "get_active_btc_eth_15m_updown_markets"
      /\ StrictMatches = << >>
      /\ RelaxedMatches # << >> )
        => ret.result = RelaxedMatches

(***************************************************************************)
(* SpecHold: the main loop followed over any number of cycles, to see      *)
(* positions age.  The loop reads the clock once per cycle and compares    *)
(* timestamps only by their difference, so the origin of time is moved     *)
(* with every cycle: the clock always reads HoldHorizon and what was       *)
(* stamped earlier moves back by the time the cycle took (the 5 s sleep    *)
(* plus the time spent in the passes), no further than 0.  A cycle takes   *)
(* at least SCAN_INTERVAL_SECONDS here, so both passes are due in each.    *)
(* Prices are unavailable or unchanged since entry, the journal works and  *)
(* nobody interrupts: only the max-hold rule closes a position.            *)
(***************************************************************************)
HoldHorizon == 480

HoldCycles == { 240 }

HoldQuoteKinds == { "none", "same" }

HoldSnapshots ==
    { s \in MarketSnapshots :
        /\ s.regime = "ok" /\ s.fault = "none" /\ s.moved = 1
        /\ s.feed \in { "spike_up", "spike_down" } }

\* a timestamp seen from an origin moved forward by elapsed seconds
moved_back(ts, elapsed) ==
    IF ts = NoneNum THEN NoneNum ELSE Max(ts - elapsed, 0)

positions_moved_back(positions, elapsed) ==
    [ i \in 1..Len(positions) |->
        [ positions[i] EXCEPT !.entry_time = moved_back(@, elapsed) ] ]

InitHold ==
    /\ risk_mgr = RiskManager(100000, MAX_CONSECUTIVE_LOSSES, MIN_TRADES_FOR_WIN_RATE)
    /\ sizer_bankroll = 100000
    /\ detector = "time"
    /\ open_positions = << >>
    /\ last_scan_time = NoneNum
    /\ last_exit_check_time = NoneNum
    /\ pc = "exits"
    /\ now = HoldHorizon
    /\ arg = [ markets |-> << >> ]
    /\ ret = [ op |-> "__init__" ]

\* The price lookups of an exit pass: get_current_price for each open
\* position, in list order.
HoldPricesWith(kinds) ==
    /\ arg' = [ positions |-> open_positions,
                quotes |-> [ i \in 1..Len(open_positions) |->
                               Quote(kinds[i], open_positions[i]) ] ]
    /\ pc' = "closing"
    /\ UNCHANGED << risk_mgr, open_positions, sizer_bankroll, detector, last_scan_time,
                    last_exit_check_time, now, ret >>

HoldPriceLookups ==
    /\ pc = "exits"
    /\ ExitCheckDue
    /\ \E kinds \in [ 1..Len(open_positions) -> HoldQuoteKinds ] : HoldPricesWith(kinds)

\* The price lookups of an exit pass in which that of token_id succeeds.
HoldPriceLookupsPricing(token_id) ==
    /\ pc = "exits"
    /\ ExitCheckDue
    /\ \E kinds \in [ 1..Len(open_positions) -> HoldQuoteKinds ] :
          /\ \A i \in 1..Len(open_positions) :
                open_positions[i].token_id = token_id => kinds[i] # "none"
          /\ HoldPricesWith(kinds)

\* The rest of the exit pass: the positions to exit at the prices found are
\* closed.
HoldCheckExits ==
    /\ pc = "closing"
    /\ \E r \in { _check_exits(BotState(risk_mgr, open_positions, sizer_bankroll),
                                 arg.quotes, NoneNum, FALSE, now) } :
          /\ risk_mgr' = r.st.risk_mgr
          /\ open_positions' = r.st.open_positions
          /\ sizer_bankroll' = r.st.sizer_bankroll
          /\ ret' = [ op |-> "_check_exits", raised |-> r.raised ]
    /\ pc' = "scan"
    /\ last_exit_check_time' = now
    /\ UNCHANGED << detector, last_scan_time, now, arg >>

HoldScanForSignals ==
    /\ pc = "scan"
    /\ ScanDue
    /\ \E n \in 0..1 :
          \E snaps \in [ 1..n -> HoldSnapshots ] :
             \E r \in { _scan_for_signals(BotState(risk_mgr, open_positions, sizer_bankroll),
                                           SubSeq(Markets, 1, n), snaps, now) } :
                 /\ risk_mgr' = r.st.risk_mgr
                 /\ open_positions' = r.st.open_positions
                 /\ sizer_bankroll' = r.st.sizer_bankroll
                 /\ arg' = [ markets |-> SubSeq(Markets, 1, n) ]
                 /\ ret' = [ op |-> "_scan_for_signals", tags |-> r.tags,
                             raised |-> r.raised ]
    /\ pc' = "sleep"
    /\ last_scan_time' = now
    /\ UNCHANGED << detector, last_exit_check_time, now >>

\* _print_status and time.sleep(5); the next cycle reads the clock elapsed
\* seconds after this one did.
HoldSleep ==
    /\ pc = "sleep"
    /\ \E elapsed \in HoldCycles :
          /\ open_positions' = positions_moved_back(open_positions, elapsed)
          /\ risk_mgr' = [ risk_mgr EXCEPT
                             !.open_positions = positions_moved_back(@, elapsed) ]
          /\ last_scan_time' = moved_back(last_scan_time, elapsed)
          /\ last_exit_check_time' = moved_back(last_exit_check_time, elapsed)
    /\ pc' = "exits"
    /\ UNCHANGED << sizer_bankroll, detector, now, arg, ret >>

NextHold ==
    \/ HoldPriceLookups
    \/ HoldCheckExits
    \/ HoldScanForSignals
    \/ HoldSleep

HoldTokens == { "A1", "A2" }

\* The loop keeps cycling, and the price lookup of each token succeeds again
\* and again.
SpecHold ==
    /\ InitHold
    /\ [][NextHold]_vars
    /\ WF_vars(NextHold)
    /\ \A t \in HoldTokens : SF_vars(HoldPriceLookupsPricing(t))

OpenTokens ==
    { open_positions[i].token_id : i \in 1..Len(open_positions) }

RiskOpenTokens ==
    { risk_mgr.open_positions[i].token_id : i \in 1..Len(risk_mgr.open_positions) }

\* C25: every position the orchestrator opens is eventually closed, while
\* the loop keeps cycling and price lookups eventually succeed: at the
\* first exit pass where the position's price is available and its hold
\* time is at least max_hold_seconds, it is removed from the orchestrator's
\* open positions and closed in the risk manager, in that same pass.
C25_EveryPositionEventuallyClosed ==
    /\ [][ (pc = "closing" /\ pc' = "scan") =>
              \A i \in 1..Len(open_positions) :
                  ( /\ arg.quotes[i] # NoneNum
                    /\ now - open_positions[i].entry_time >= MAX_HOLD_TIME_SECONDS )
                      => /\ open_positions[i].token_id \notin OpenTokens'
                         /\ open_positions[i].token_id \notin RiskOpenTokens' ]_vars
    /\ \A t \in HoldTokens :
          (t \in OpenTokens) ~> (t \notin OpenTokens /\ t \notin RiskOpenTokens)

\* C25 witness: an exit pass has closed a position because it was held for
\* max_hold_seconds, at an unchanged price.
C25_Witness ==
    /\ pc = "scan"
    /\ ret.op = "_check_exits"
    /\ \E i \in 1..Len(arg.positions) :
          /\ arg.quotes[i] = arg.positions[i].entry_price
          /\ now - arg.positions[i].entry_time >= MAX_HOLD_TIME_SECONDS
          /\ arg.positions[i].token_id \notin OpenTokens
          /\ arg.positions[i].token_id \notin RiskOpenTokens
    /\ risk_mgr.trade_history # << >>

(***************************************************************************)
(* The sizer below its minimum: when the bankroll cap is under the         *)
(* minimum trade size no signal is tradeable, and the orchestrator started *)
(* with STARTING_BANKROLL never opens a position.                          *)
(***************************************************************************)
\* bankrolls around the least one whose 2% reaches the 10-dollar minimum
UnderMinimumBankrolls == { 0, 100, STARTING_BANKROLL, 49900, 49999, 50000, 50100 }

BankrollCapUnderMinimum(bankroll) ==
    MulDiv(bankroll, MAX_POSITION_PCT, 100) < MIN_TRADE_SIZE

SizerRefusesUnderMinimum ==
    \A b \in UnderMinimumBankrolls, e \in SizeEdges \cup { 0, 10000 },
       c \in SizeConfidences \cup { 0, 100 }, d \in SizeDepths \cup { 0, 1000000 },
       r \in SizeRegimeScores \cup { 0 } :
        BankrollCapUnderMinimum(b) => ~calculate_size(b, e, c, d, r).tradeable

\* C26: calculate_size is not tradeable, whatever the edge, confidence,
\* market depth and regime score, when bankroll * max_position_pct is below
\* min_trade_size; so the orchestrator started with its default bankroll of
\* 250 dollars holds no open position in any reachable state, and its
\* bankroll stays what it was.
C26_UnderMinimumNeverTrades ==
    /\ SizerRefusesUnderMinimum
    /\ BankrollCapUnderMinimum(sizer_bankroll) =>
          ~calculate_size(sizer_bankroll, 10000, 100, 1000000, NoneNum).tradeable
    /\ risk_mgr.starting_bankroll = STARTING_BANKROLL =>
          /\ BankrollCapUnderMinimum(sizer_bankroll)
          /\ open_positions = << >>
          /\ risk_mgr.open_positions = << >>
          /\ risk_mgr.trade_history = << >>
          /\ sizer_bankroll = STARTING_BANKROLL

\* C26 witness: with the default bankroll a scan found a signal and skipped
\* it as not tradeable.
C26_Witness ==
    /\ risk_mgr.starting_bankroll = STARTING_BANKROLL
    /\ ret.op = "_scan_for_signals"
    /\ \E i \in 1..Len(ret.tags) : ret.tags[i] = "not_tradeable"
    /\ open_positions = << >>

(***************************************************************************)
(* The risk manager's books: the day's pnl, the bankroll and the losing    *)
(* streak against the close_position calls made.                           *)
(***************************************************************************)
\* C27: in every reachable RiskManager state today_pnl is current_bankroll
\* less today_start_bankroll, and current_bankroll is starting_bankroll plus
\* the pnl of all close_position calls made so far.
C27_BooksBalance ==
    /\ risk_mgr.today_pnl = risk_mgr.current_bankroll - risk_mgr.today_start_bankroll
    /\ risk_mgr.current_bankroll = risk_mgr.starting_bankroll + arg.pnl_total

\* C27 witness: after closes at a gain and at a loss and a daily reset, a
\* further close has moved the bankroll away from the day's start.
C27_Witness ==
    /\ ret.op = "close_position"
    /\ arg.close_calls >= 3
    /\ risk_mgr.today_start_bankroll # risk_mgr.starting_bankroll
    /\ risk_mgr.today_pnl # 0
    /\ risk_mgr.today_pnl # arg.pnl_total
    /\ \E i, j \in 1..Len(risk_mgr.trade_history) :
          risk_mgr.trade_history[i] /\ ~risk_mgr.trade_history[j]

\* length of the longest suffix of history holding only losses
RECURSIVE LosingSuffix(_)
LosingSuffix(history) ==
    IF history = << >> \/ history[Len(history)]
    THEN 0
    ELSE 1 + LosingSuffix(SubSeq(history, 1, Len(history) - 1))

\* C28: in every reachable RiskManager state consecutive_losses is the
\* length of the longest suffix of trade_history holding only losses, a
\* close with pnl <= 0 (0 included) being a loss, and trade_history is as
\* long as the number of close_position calls made, those for a token_id
\* without open position included.
C28_StreakIsLosingSuffix ==
    /\ risk_mgr.consecutive_losses = LosingSuffix(risk_mgr.trade_history)
    /\ Len(risk_mgr.trade_history) = arg.close_calls
    /\ ret.op = "close_position" =>
          /\ risk_mgr.trade_history # << >>
          /\ risk_mgr.trade_history[Len(risk_mgr.trade_history)] = (ret.pnl > 0)

\* C28 witness: a close at exactly 0 for a token without open position has
\* lengthened a losing streak that began after a win and outlasted a reset.
C28_Witness ==
    /\ ret.op = "close_position"
    /\ ret.pnl = 0
    /\ risk_mgr.open_positions = << >>
    /\ risk_mgr.consecutive_losses = 2
    /\ Len(risk_mgr.trade_history) = 3
    /\ risk_mgr.trade_history[1]
    /\ risk_mgr.today_pnl = 0
    /\ risk_mgr.today_start_bankroll # risk_mgr.starting_bankroll

(***************************************************************************)
(* The score of the time-windowed detector's signals.                      *)
(***************************************************************************)
\* the bonus factors of detect, on the arguments of the call
DetectBonuses ==
    (IF btc_mismatch(arg.self, arg.btc_price_change_5min) THEN { "btc_mismatch" } ELSE {})
    \cup (IF retail_panic(retail_window(arg.self, arg.recent_trades, now))
          THEN { "retail_panic" } ELSE {})
    \cup (IF volume_spike(arg.self, arg.recent_trades, now) THEN { "volume_spike" } ELSE {})
    \cup (IF _orderbook_imbalance_extreme(arg.orderbook)
          THEN { "orderbook_imbalance" } ELSE {})
    \cup (IF rsi_extreme(arg.self, retail_window(arg.self, arg.recent_trades, now),
                         arg.recent_prices)
          THEN { "rsi_extreme" } ELSE {})

\* C29: every signal of the time-windowed detector has
\* min_score <= score <= 100 and confidence = score; the sharp move alone
\* scores at most 50 and min_score is 55 or more, so a signal has at least
\* one bonus factor (underlying mismatch, retail panic, volume spike,
\* order-book imbalance or RSI extreme) triggered.
C29_SignalScoreNeedsBonus ==
    (ret.op = "detect" /\ ret.result.signal) =>
        /\ arg.self.min_score <= ret.result.score
        /\ ret.result.score <= 100
        /\ ret.result.confidence = ret.result.score
        /\ sharp_move_score(arg.self, ret.result.current_price, ret.result.ref_price) <= 50
        /\ arg.self.min_score >= 55
        /\ DetectBonuses # {}

\* C29 witness: a signal on the greatest sharp-move score and the order
\* book's imbalance as its single bonus factor, 60 in all.
C29_Witness ==
    /\ ret.op = "detect"
    /\ ret.result.signal
    /\ sharp_move_score(arg.self, ret.result.current_price, ret.result.ref_price) = 50
    /\ DetectBonuses = { "orderbook_imbalance" }
    /\ ret.result.score = 60
    /\ ret.result.confidence = 60

(***************************************************************************)
(* SpecIndicators: the indicator functions of                              *)
(* src/Polymarket/02_indicators.py called on one series of prices.         *)
(***************************************************************************)
\* calculate_bollinger_bands with std_dev = 2: middle = total / period and
\* upper, lower = middle +- 2 * sqrt(n2var) / period, where total is the sum
\* of the last period prices and n2var is period^2 times their variance;
\* (0, 0, 0) when the series is short.
calculate_bollinger_bands(prices, period) ==
    IF Len(prices) < period THEN [ total |-> 0, n2var |-> 0, period |-> 1 ]
    ELSE LET last == LastN(prices, period)
         IN  [ total  |-> SumSeq(last),
               n2var  |-> period * SumSeq([ k \in 1..period |-> last[k] * last[k] ])
                            - SumSeq(last) * SumSeq(last),
               period |-> period ]

MaxSamples == 5
IndicatorPrices == { 47, 48, 50, 52 }
IndicatorPeriods == { 2, 3 }

IndicatorSeries ==
    UNION { [ 1..n -> IndicatorPrices ] : n \in 0..MaxSamples }

InitIndicators ==
    /\ IdleRisk
    /\ open_positions = << >>
    /\ sizer_bankroll = 0
    /\ detector = None
    /\ last_scan_time = NoneNum
    /\ last_exit_check_time = NoneNum
    /\ pc = "call"
    /\ now = 0
    /\ ret = [ op |-> "none" ]
    /\ \E prices \in IndicatorSeries, period \in IndicatorPeriods :
          arg = [ prices |-> prices, period |-> period ]

IndicatorReturns(op, result) ==
    /\ ret' = [ op |-> op, result |-> result ]
    /\ pc' = "done"
    /\ UNCHANGED << risk_mgr, open_positions, sizer_bankroll, detector, last_scan_time,
                    last_exit_check_time, now, arg >>

Call_calculate_atr ==
    /\ pc = "call"
    /\ IndicatorReturns("calculate_atr", calculate_atr(arg.prices, arg.period))

Call_calculate_bollinger_bands ==
    /\ pc = "call"
    /\ IndicatorReturns("calculate_bollinger_bands",
                        calculate_bollinger_bands(arg.prices, arg.period))

Call_calculate_rsi ==
    /\ pc = "call"
    /\ IndicatorReturns("calculate_rsi", calculate_rsi(arg.prices, arg.period))

NextIndicators ==
    \/ Call_calculate_atr
    \/ Call_calculate_bollinger_bands
    \/ Call_calculate_rsi

SpecIndicators == InitIndicators /\ [][NextIndicators]_vars

\* no price of the last period changes of the series is below the one before
NoLossInLastPeriod ==
    \A i \in 1..(Len(arg.prices) - 1) :
        i >= Len(arg.prices) - arg.period => arg.prices[i + 1] >= arg.prices[i]

StrictlyIncreasing ==
    \A i \in 1..(Len(arg.prices) - 1) : arg.prices[i + 1] > arg.prices[i]

\* C30: on short input the indicators return their neutral values:
\* calculate_atr 0 for fewer than period samples, calculate_bollinger_bands
\* (0, 0, 0) for fewer than period samples, calculate_rsi exactly 50 for
\* fewer than period + 1 samples; and calculate_rsi returns 100 whenever the
\* mean loss over the last period changes is 0, so for every strictly
\* increasing series of at least period + 1 samples.
C30_IndicatorNeutralValues ==
    /\ (ret.op = "calculate_atr" /\ Len(arg.prices) < arg.period)
          => ret.result[1] = 0 /\ ret.result[2] > 0
    /\ (ret.op = "calculate_bollinger_bands" /\ Len(arg.prices) < arg.period)
          => ret.result.total = 0 /\ ret.result.n2var = 0 /\ ret.result.period > 0
    /\ (ret.op = "calculate_rsi" /\ Len(arg.prices) < arg.period + 1)
          => ret.result = [ num |-> 50, den |-> 1 ]
    /\ (ret.op = "calculate_rsi" /\ Len(arg.prices) >= arg.period + 1)
          => /\ NoLossInLastPeriod => ret.result = [ num |-> 100, den |-> 1 ]
             /\ StrictlyIncreasing => NoLossInLastPeriod

\* C30 witness: calculate_rsi has returned 100 for a strictly increasing
\* series of period + 1 samples.
C30_Witness ==
    /\ ret.op = "calculate_rsi"
    /\ Len(arg.prices) = arg.period + 1
    /\ StrictlyIncreasing
    /\ ret.result = [ num |-> 100, den |-> 1 ]
=============================================================================
